---- MODULE Spec2Model ----
(***************************************************************************)
(* A model of the garment intelligence pipeline of modaics-v3              *)
(* (backend/app/services and backend/app/routers).                         *)
(*                                                                         *)
(* The pipeline is a set of independent components, so the module holds    *)
(* one specification per component; each specification leaves the          *)
(* variables of the other components at their idle values.                 *)
(*                                                                         *)
(*   SpecLoad   the lazy, lock-guarded model load of FashionCLIPService    *)
(*              and StyleMatchingService (initialize)                      *)
(***************************************************************************)
EXTENDS Integers, Sequences, FiniteSets, TLC

(***************************************************************************)
(* Model loading: FashionCLIPService.initialize and                        *)
(* StyleMatchingService.initialize (the same code in both classes).        *)
(***************************************************************************)
VARIABLES
    service,      \* which singleton the run is about
    model,        \* self.model is not None
    lockHeld,     \* cls._lock.locked()
    lockWaiters,  \* callers suspended in cls._lock.acquire(), in arrival order
    pc,           \* per caller: position inside initialize()
    loadStarts,   \* number of times _load_model_sync was handed to the executor
    loadFails,    \* number of those loads that raised
    rechecked     \* callers that returned from the re-check under the lock

loadVars ==
    <<service, model, lockHeld, lockWaiters, pc, loadStarts, loadFails, rechecked>>

(***************************************************************************)
(* Routing: ConditionGrader.get_routing_recommendation, a pure function.   *)
(* An Optional argument is the empty set (None) or a singleton.            *)
(***************************************************************************)
VARIABLES
    routePc,      \* "call" before get_routing_recommendation runs, "return" after
    routeArgs,    \* [grade, brand_tier, estimated_price]
    routeResult   \* the returned dict (action, reason), or raised = TRUE

routeVars == <<routePc, routeArgs, routeResult>>

(***************************************************************************)
(* Pricing: PricingService.estimate_price, a pure function.                *)
(***************************************************************************)
VARIABLES
    pricePc,      \* "call" before estimate_price runs, "return" after
    priceArgs,    \* [category, condition, brand, provenance, original_price]
    priceResult   \* the returned dict

priceVars == <<pricePc, priceArgs, priceResult>>

(***************************************************************************)
(* Colour extraction: ColorExtractor.extract_colors.                       *)
(***************************************************************************)
VARIABLES
    colorPc,      \* "call" before extract_colors runs, "return" after
    colorArgs,    \* [image, remove_background, n_colors]
    colorResult   \* the returned list of ExtractedColor

colorVars == <<colorPc, colorArgs, colorResult>>

(***************************************************************************)
(* Similarity: calculate_similarity of both services, a pure function.     *)
(***************************************************************************)
VARIABLES
    simPc,        \* "call" before calculate_similarity runs, "return" after
    simArgs,      \* [service, embedding1, embedding2]
    simResult     \* the returned float, in ten-thousandths

simVars == <<simPc, simArgs, simResult>>

(***************************************************************************)
(* Discovery: discover_garments and find_similar_garments.                 *)
(***************************************************************************)
VARIABLES
    garments,     \* the garments table: id -> [status, embedding]
    discPc,       \* "call" before the handler runs, "return" after
    discReq,      \* the request parameters
    discRead,     \* the candidates in the order the database returned them
    discResp      \* the response: status, results, total, page, page_size, pages

discVars == <<garments, discPc, discReq, discRead, discResp>>

(***************************************************************************)
(* Batch aggregation: aggregate_predictions as a call with its arguments   *)
(* and result.                                                             *)
(***************************************************************************)
VARIABLES
    aggPc,        \* "call" before aggregate_predictions runs, "return" after
    aggArgs,      \* results: per image, the list of category entries
    aggResult     \* the aggregated category list

aggVars == <<aggPc, aggArgs, aggResult>>

(***************************************************************************)
(* Analysis: analyze_garment_image and analyze_multiple_images, one        *)
(* request at a time, with the FashionCLIP singleton they use.             *)
(***************************************************************************)
VARIABLES
    anReq,         \* the request: endpoint and the uploaded files
    anPc,          \* where the handler is: "start", "service", "analyze", "loop", "done"
    anIdx,         \* batch: the index of the next file of the loop
    anLog,         \* the work done for the request, in order
    anResp,        \* the HTTP status of the response, 0 before it is sent
    clipService,   \* _fashion_clip_service is not None
    clipModel,     \* FashionCLIPService.model is not None
    clipLoadable   \* whether _load_model_sync succeeds

anVars == <<anReq, anPc, anIdx, anLog, anResp, clipService, clipModel, clipLoadable>>

(***************************************************************************)
(* Classifier labels: _clean_label as a call with its argument and result. *)
(***************************************************************************)
VARIABLES
    labelPc,      \* "call" before _clean_label runs, "return" after
    labelArgs,    \* the prompt
    labelResult   \* the label

labelVars == <<labelPc, labelArgs, labelResult>>

(***************************************************************************)
(* Sustainability score: calculate_sustainability_score as a call with its *)
(* arguments and result.                                                   *)
(***************************************************************************)
VARIABLES
    scorePc,      \* "call" before calculate_sustainability_score runs, "return" after
    scoreArgs,    \* materials (the labels of the classified materials) and condition
    scoreResult   \* the score

scoreVars == <<scorePc, scoreArgs, scoreResult>>

(***************************************************************************)
(* Exchanges: the exchange endpoints on one garment, each request with its *)
(* own database session.                                                   *)
(***************************************************************************)
VARIABLES
    garmentStatus,  \* garments.status of the garment: "active", "reserved", "sold"
    exchanges,      \* exchanges.status by exchange id, "none" for a row not yet inserted
    exchReqs,       \* per request slot: the handler between its SELECT and its commit
    exchLast        \* the request that ended last: what it read, answered and wrote

exchVars == <<garmentStatus, exchanges, exchReqs, exchLast>>

(***************************************************************************)
(* Condition grade: _classify_grade as a call with the classifier's        *)
(* confidences and its result.                                             *)
(***************************************************************************)
VARIABLES
    gradePc,      \* "call" before _classify_grade runs, "return" after
    gradeArgs,    \* the confidence (thousandths) the classifier gives each grade prompt
    gradeResult   \* [grade, confidence, all_scores]

gradeVars == <<gradePc, gradeArgs, gradeResult>>

(***************************************************************************)
(* Inference: the tasks of one single-image analysis and the model they    *)
(* run on.                                                                 *)
(***************************************************************************)
VARIABLES
    infService,   \* _fashion_clip_service is not None
    infModel,     \* the service's model and processor are loaded
    infLoadable,  \* whether _load_model_sync succeeds
    infLock,      \* the task inside `async with self._lock`, "none" when it is free
    infPc,        \* where the handler ("request") and each task of the gather is
    infSteps      \* the inference steps run so far, each with whether the model was loaded

infVars == <<infService, infModel, infLoadable, infLock, infPc, infSteps>>

vars == <<loadVars, routeVars, priceVars, colorVars, simVars, discVars, aggVars, anVars, labelVars, scoreVars, exchVars, gradeVars, infVars>>

\* Number of concurrent callers of initialize().
NumCallers == 3
\* Cap on the number of load attempts in one run.
MaxLoads == 3

Services == {"FashionCLIPService", "StyleMatchingService"}
Callers == 1..NumCallers

LoadInit ==
    /\ service \in Services
    /\ model = FALSE
    /\ lockHeld = FALSE
    /\ lockWaiters = <<>>
    /\ pc = [c \in Callers |-> "idle"]
    /\ loadStarts = 0
    /\ loadFails = 0
    /\ rechecked = {}

\* values of the load variables in the specifications of other components
LoadIdle ==
    /\ service = "FashionCLIPService"
    /\ model = FALSE
    /\ lockHeld = FALSE
    /\ lockWaiters = <<>>
    /\ pc = [c \in Callers |-> "idle"]
    /\ loadStarts = 0
    /\ loadFails = 0
    /\ rechecked = {}

NotInInitialize(c) == pc[c] \in {"idle", "returned", "raised"}

\* initialize(): `if self.model is not None: return` before taking the lock.
InitializeFast(c) ==
    /\ NotInInitialize(c)
    /\ model
    /\ pc' = [pc EXCEPT ![c] = "returned"]
    /\ UNCHANGED <<service, model, lockHeld, lockWaiters, loadStarts, loadFails, rechecked>>

\* initialize(): the lock is free, so `async with self._lock` does not
\* suspend; the re-check finds no model and the load goes to the executor.
InitializeLoad(c) ==
    /\ NotInInitialize(c)
    /\ ~model
    /\ ~lockHeld /\ lockWaiters = <<>>
    /\ loadStarts < MaxLoads
    /\ lockHeld' = TRUE
    /\ loadStarts' = loadStarts + 1
    /\ pc' = [pc EXCEPT ![c] = "loading"]
    /\ UNCHANGED <<service, model, lockWaiters, loadFails, rechecked>>

\* initialize(): the lock is held (or others queue for it): suspend in acquire().
InitializeWait(c) ==
    /\ NotInInitialize(c)
    /\ ~model
    /\ lockHeld \/ lockWaiters # <<>>
    /\ lockWaiters' = Append(lockWaiters, c)
    /\ pc' = [pc EXCEPT ![c] = "waiting"]
    /\ UNCHANGED <<service, model, lockHeld, loadStarts, loadFails, rechecked>>

\* The re-check without the second `if self.model is not None: return`.
RecheckModelSkipped(c) == FALSE

\* A woken waiter re-checks self.model under the lock.
RecheckModel(c) == model

\* The first waiter gets the lock after a release; it re-checks self.model
\* and either returns (releasing the lock) or starts the load.
WakeWaiter(c) ==
    /\ pc[c] = "waiting"
    /\ ~lockHeld
    /\ lockWaiters # <<>> /\ Head(lockWaiters) = c
    /\ lockWaiters' = Tail(lockWaiters)
    /\ IF RecheckModel(c)
       THEN /\ pc' = [pc EXCEPT ![c] = "returned"]
            /\ rechecked' = rechecked \cup {c}
            /\ UNCHANGED <<lockHeld, loadStarts>>
       ELSE /\ loadStarts < MaxLoads
            /\ lockHeld' = TRUE
            /\ loadStarts' = loadStarts + 1
            /\ pc' = [pc EXCEPT ![c] = "loading"]
            /\ UNCHANGED rechecked
    /\ UNCHANGED <<service, model, loadFails>>

\* _load_model_sync returned: self.model, self.processor are set, lock released.
LoadSucceeds(c) ==
    /\ pc[c] = "loading"
    /\ model' = TRUE
    /\ lockHeld' = FALSE
    /\ pc' = [pc EXCEPT ![c] = "returned"]
    /\ UNCHANGED <<service, lockWaiters, loadStarts, loadFails, rechecked>>

\* _load_model_sync raised: logged and re-raised, lock released, model unset.
LoadRaises(c) ==
    /\ pc[c] = "loading"
    /\ lockHeld' = FALSE
    /\ loadFails' = loadFails + 1
    /\ pc' = [pc EXCEPT ![c] = "raised"]
    /\ UNCHANGED <<service, model, lockWaiters, loadStarts, rechecked>>

LoadStep ==
    \E c \in Callers :
        \/ InitializeFast(c)
        \/ InitializeLoad(c)
        \/ InitializeWait(c)
        \/ WakeWaiter(c)
        \/ LoadSucceeds(c)
        \/ LoadRaises(c)


(***************************************************************************)
(* ConditionGrader.get_routing_recommendation                              *)
(***************************************************************************)
None == {}
Some(v) == {v}

Grades == {"A", "B", "C", "D", "F"}
BrandTiers == {None} \cup {Some(t) : t \in 1..5}

\* Largest estimated price (whole dollars) given to the routing function.
MaxRoutePrice == 16
RoutePrices == {None} \cup {Some(p) : p \in -1..MaxRoutePrice}

Routing(action, reason) == [action |-> action, reason |-> reason, raised |-> FALSE]
\* `None <= 2` raises TypeError
RoutingRaised == [action |-> "TypeError", reason |-> "TypeError", raised |-> TRUE]
NoRouting == [action |-> "", reason |-> "", raised |-> FALSE]

\* Python truth value of an Optional[float]: None and 0.0 are false.
Truthy(opt) == opt # None /\ opt # Some(0)

TheValue(opt) == CHOOSE v \in opt : TRUE

\* The decision chain with the low-price rule tried before the grade-F rule.
get_routing_recommendation_PriceFirst(grade, brand_tier, estimated_price) ==
    IF brand_tier = Some(5) THEN Routing("sell", "premium_brand")
    ELSE IF brand_tier = Some(1) THEN Routing("donate", "ultra_fast_fashion")
    ELSE IF Truthy(estimated_price) /\ TheValue(estimated_price) < 15
        THEN Routing("choice", "low_value")
    ELSE IF grade = "F" THEN Routing("recycle", "damaged")
    ELSE IF grade = "D" /\ brand_tier = None THEN RoutingRaised
    ELSE IF grade = "D" /\ TheValue(brand_tier) <= 2
        THEN Routing("donate", "worn_fast_fashion")
    ELSE IF grade \in {"A", "B"} THEN Routing("sell", "good_condition")
    ELSE Routing("sell_discount", "moderate_condition")

get_routing_recommendation(grade, brand_tier, estimated_price) ==
    IF brand_tier = Some(5) THEN Routing("sell", "premium_brand")
    ELSE IF brand_tier = Some(1) THEN Routing("donate", "ultra_fast_fashion")
    ELSE IF grade = "F" THEN Routing("recycle", "damaged")
    ELSE IF grade = "D" /\ brand_tier = None THEN RoutingRaised
    ELSE IF grade = "D" /\ TheValue(brand_tier) <= 2
        THEN Routing("donate", "worn_fast_fashion")
    ELSE IF Truthy(estimated_price) /\ TheValue(estimated_price) < 15
        THEN Routing("choice", "low_value")
    ELSE IF grade \in {"A", "B"} THEN Routing("sell", "good_condition")
    ELSE Routing("sell_discount", "moderate_condition")

RouteInit ==
    /\ routePc = "call"
    /\ routeArgs \in [grade : Grades, brand_tier : BrandTiers,
                      estimated_price : RoutePrices]
    /\ routeResult = NoRouting

RouteIdle ==
    /\ routePc = "call"
    /\ routeArgs = [grade |-> "A", brand_tier |-> None, estimated_price |-> None]
    /\ routeResult = NoRouting

RouteCall ==
    /\ routePc = "call"
    /\ routeResult' = get_routing_recommendation(
            routeArgs.grade, routeArgs.brand_tier, routeArgs.estimated_price)
    /\ routePc' = "return"
    /\ UNCHANGED routeArgs

(***************************************************************************)
(* PricingService (services/pricing.py).  Money is in cents, condition     *)
(* multipliers in hundredths, brand multipliers in tenths.                 *)
(***************************************************************************)

\* str.lower() on the strings the model uses (identity on lower-case ones)
Lower(s) ==
    CASE s = "Dress" -> "dress"
      [] s = "New" -> "new"
      [] s = " Zara " -> " zara "
      [] s = "H&M" -> "h&m"
      [] s = "Vintage" -> "vintage"
      [] s = "Organic Cotton blend" -> "organic cotton blend"
      [] s = "GOTS" -> "gots"
      [] s = "GOTS and OEKO-TEX" -> "gots and oeko-tex"
      [] s = "Fair Trade" -> "fair trade"
      [] s = "B Corp" -> "b corp"
      [] s = "OEKO-TEX Standard 100" -> "oeko-tex standard 100"
      [] s = "Cradle to Cradle" -> "cradle to cradle"
      [] s = "ISO 9001" -> "iso 9001"
      [] s = "Blue Jeans" -> "blue jeans"
      [] s = "Silk" -> "silk"
      [] s = "Designer Archive" -> "designer archive"
      [] s = "Bluesign" -> "bluesign"
      [] s = "DRESS" -> "dress"
      [] OTHER -> s

\* str.strip() on the strings the model uses
Strip(s) ==
    CASE s = " zara " -> "zara"
      [] s = " Zara " -> "Zara"
      [] OTHER -> s

\* `needle in hay` for the lower-cased strings the model uses
Contains(hay, needle) ==
    \/ hay = needle
    \/ <<hay, needle>> \in {
          <<"organic cotton blend", "organic cotton">>,
          <<"recycled polyester", "polyester">>,
          <<"gots and oeko-tex", "gots">>,
          <<"gots and oeko-tex", "oeko-tex">>,
          <<"oeko-tex standard 100", "oeko-tex">>,
          <<"red vintage dress", "red">>, <<"red vintage dress", "vintage">>,
          <<"red vintage dress", "dress">>,
          <<"blue jeans", "blue">>, <<"blue jeans", "jeans">>,
          <<"clothing made of wool", "wool">> }

CONDITION_MULTIPLIERS ==
    ("new" :> 85) @@ ("excellent" :> 70) @@ ("good" :> 50) @@ ("fair" :> 30)

BRAND_TIERS ==
    ("gucci" :> 25) @@ ("prada" :> 25) @@ ("chanel" :> 30) @@ ("hermes" :> 35)
    @@ ("louis vuitton" :> 25)
    @@ ("theory" :> 15) @@ ("cos" :> 13) @@ ("everlane" :> 12)
    @@ ("reformation" :> 14) @@ ("patagonia" :> 14) @@ ("eileen fisher" :> 14)
    @@ ("j.crew" :> 11) @@ ("banana republic" :> 10) @@ ("zara" :> 8)
    @@ ("h&m" :> 6) @@ ("uniqlo" :> 9) @@ ("madewell" :> 12)
    @@ ("organic basics" :> 13) @@ ("tentree" :> 13) @@ ("kotn" :> 13)
    @@ ("pact" :> 12) @@ ("kuyichi" :> 12)

CATEGORY_BASE_PRICES ==
    ("dress" :> 12000) @@ ("shirt" :> 6000) @@ ("blouse" :> 7000)
    @@ ("t-shirt" :> 3500) @@ ("pants" :> 8000) @@ ("jeans" :> 9000)
    @@ ("skirt" :> 6500) @@ ("jacket" :> 15000) @@ ("coat" :> 20000)
    @@ ("sweater" :> 8500) @@ ("cardigan" :> 7500) @@ ("shorts" :> 4500)
    @@ ("activewear" :> 7000) @@ ("swimwear" :> 6000) @@ ("accessory" :> 5000)
    @@ ("shoes" :> 10000) @@ ("bag" :> 15000)

\* dict.get(key, default)
Get(dict, key, default) == IF key \in DOMAIN dict THEN dict[key] ELSE default

\* quantize with rounding=ROUND_DOWN (truncation) instead
RoundDown(n, d) == IF n >= 0 THEN n \div d ELSE -((-n) \div d)

\* Decimal.quantize(Decimal("1.00"), rounding=ROUND_HALF_UP) of n/d, d > 0:
\* ties go away from zero
RoundHalfUp(n, d) ==
    IF n >= 0 THEN (2 * n + d) \div (2 * d)
    ELSE -((2 * (-n) + d) \div (2 * d))

\* Decimal.quantize(Decimal("1.00")) of n/d, d > 0, in the default context
\* (ROUND_HALF_EVEN)
RoundHalfEven(n, d) ==
    LET q == n \div d
        r == n - q * d
    IN  IF 2 * r < d THEN q
        ELSE IF 2 * r > d THEN q + 1
        ELSE IF q % 2 = 0 THEN q ELSE q + 1

Min(a, b) == IF a <= b THEN a ELSE b
Max(a, b) == IF a >= b THEN a ELSE b

SUSTAINABLE_MATERIALS ==
    {"organic cotton", "hemp", "linen", "tencel", "lyocell",
     "recycled polyester", "recycled nylon", "bamboo",
     "peace silk", "alpaca", "merino wool"}

\* cert_bonus_map in insertion order
CERT_BONUS_MAP ==
    << <<"gots", 1000>>, <<"fair trade", 1000>>, <<"b corp", 800>>,
       <<"bluesign", 800>>, <<"oeko-tex", 500>>, <<"cradle to cradle", 1000>> >>

\* the inner loop over cert_bonus_map: the first name contained in the
\* certification decides, 0 when none is
RECURSIVE CertValue(_, _)
CertValue(cert_lower, i) ==
    IF i > Len(CERT_BONUS_MAP) THEN 0
    ELSE IF Contains(cert_lower, CERT_BONUS_MAP[i][1]) THEN CERT_BONUS_MAP[i][2]
    ELSE CertValue(cert_lower, i + 1)

RECURSIVE CertsBonus(_)
CertsBonus(certs) ==
    IF certs = <<>> THEN 0
    ELSE CertValue(Lower(Head(certs)), 1) + CertsBonus(Tail(certs))

\* 5.00 for every material that matches
MaterialsBonusEach(materials) ==
    500 * Cardinality({i \in 1..Len(materials) :
              \E sus \in SUSTAINABLE_MATERIALS : Contains(Lower(materials[i]), sus)})

\* the loop over materials: 5.00 once if any material matches
MaterialsBonus(materials) ==
    IF \E i \in 1..Len(materials) :
          \E sus \in SUSTAINABLE_MATERIALS : Contains(Lower(materials[i]), sus)
    THEN 500 ELSE 0

SourceBonus(source) ==
    IF Lower(source) \in {"vintage", "antique", "designer archive"} THEN 1500
    ELSE IF Lower(source) \in {"secondhand", "consignment"} THEN 500
    ELSE 0

\* A provenance dict is a record with the three keys the code reads; an
\* absent key is the default that dict.get gives ("" or the empty list).
EmptyProvenance == [source |-> "", materials |-> <<>>, certifications |-> <<>>]

\* PricingService._calculate_sustainability_bonus
_calculate_sustainability_bonus(provenance) ==
    IF provenance = None \/ provenance = Some(EmptyProvenance) THEN 0
    ELSE LET p == TheValue(provenance)
         IN  Min(SourceBonus(p.source) + MaterialsBonus(p.materials)
                   + CertsBonus(p.certifications), 5000)

\* PricingService._calculate_confidence
_calculate_confidence(category, brand, original_price) ==
    LET score ==
            (IF Lower(category) \in DOMAIN CATEGORY_BASE_PRICES THEN 1 ELSE 0)
          + (IF brand # None /\ brand # Some("")
                /\ Lower(TheValue(brand)) \in DOMAIN BRAND_TIERS THEN 2 ELSE 0)
          + (IF Truthy(original_price) THEN 2 ELSE 0)
    IN  IF score >= 4 THEN "high" ELSE IF score >= 2 THEN "medium" ELSE "low"

\* estimate_price without the floor.
MinimumPriceMissing(final_price) == final_price

\* The minimum price: max(final_price, Decimal("5.00")).
MinimumPrice(final_price) == Max(final_price, 500)

\* estimate_price, everything but the explanation text
estimate_price(category, condition, brand, provenance, original_price) ==
    LET base_value ==
            IF Truthy(original_price) THEN TheValue(original_price)
            ELSE Get(CATEGORY_BASE_PRICES, Lower(category), 7500)
        condition_mult == Get(CONDITION_MULTIPLIERS, Lower(condition), 40)
        brand_mult ==
            IF brand # None /\ brand # Some("")
            THEN Get(BRAND_TIERS, Strip(Lower(TheValue(brand))), 10)
            ELSE 10
        sustainability_bonus == _calculate_sustainability_bonus(provenance)
        rarity_mult == 1
        \* adjusted_base + bonus, in thousandths of a cent
        final_exact == base_value * condition_mult * brand_mult * rarity_mult
                         + sustainability_bonus * 1000
        final_price == MinimumPrice(RoundHalfUp(final_exact, 1000))
    IN  [recommended_price |-> final_price,
         price_range |-> [min |-> RoundHalfEven(final_price * 8, 10),
                          max |-> RoundHalfEven(final_price * 12, 10)],
         factors |-> [base_value |-> base_value,
                      condition_multiplier |-> condition_mult,
                      brand_multiplier |-> brand_mult,
                      sustainability_bonus |-> sustainability_bonus,
                      rarity_multiplier |-> rarity_mult],
         confidence |-> _calculate_confidence(category, brand, original_price)]

PriceCategories == {"dress", "Dress", "coat", "kimono"}
PriceConditions == {"new", "New", "excellent", "good", "fair", "poor"}
PriceBrands ==
    {None, Some(""), Some("gucci"), Some(" Zara "), Some("H&M"), Some("acme")}
PriceProvenances ==
    {None, Some(EmptyProvenance),
     Some([source |-> "Vintage", materials |-> <<"Organic Cotton blend">>,
           certifications |-> <<"GOTS">>]),
     Some([source |-> "secondhand", materials |-> <<"polyester">>,
           certifications |-> <<>>]),
     Some([source |-> "vintage", materials |-> <<"linen">>,
           certifications |-> <<"GOTS", "Fair Trade", "Cradle to Cradle", "B Corp">>]),
     Some([source |-> "consignment", materials |-> <<"hemp", "linen">>,
           certifications |-> <<"OEKO-TEX Standard 100", "Bluesign", "ISO 9001">>]),
     Some([source |-> "Designer Archive", materials |-> <<>>,
           certifications |-> <<"GOTS", "GOTS">>])}
\* original prices in cents: absent, zero, negative, below the floor, one
\* whose product with 0.85 ends in half a cent, and a large one
OriginalPrices == {None} \cup {Some(c) : c \in {0, -1000, 1, 1010, 25000}}

NoEstimate ==
    [recommended_price |-> 0, price_range |-> [min |-> 0, max |-> 0],
     factors |-> [base_value |-> 0, condition_multiplier |-> 0,
                  brand_multiplier |-> 0, sustainability_bonus |-> 0,
                  rarity_multiplier |-> 0],
     confidence |-> ""]

PriceInit ==
    /\ pricePc = "call"
    /\ priceArgs \in [category : PriceCategories, condition : PriceConditions,
                      brand : PriceBrands, provenance : PriceProvenances,
                      original_price : OriginalPrices]
    /\ priceResult = NoEstimate

PriceIdle ==
    /\ pricePc = "call"
    /\ priceArgs = [category |-> "dress", condition |-> "new", brand |-> None,
                    provenance |-> None, original_price |-> None]
    /\ priceResult = NoEstimate

PriceCall ==
    /\ pricePc = "call"
    /\ priceResult' = estimate_price(priceArgs.category, priceArgs.condition,
            priceArgs.brand, priceArgs.provenance, priceArgs.original_price)
    /\ pricePc' = "return"
    /\ UNCHANGED priceArgs

(***************************************************************************)
(* ColorExtractor (services/color_extractor.py).  An image, once resized,  *)
(* is a histogram: the number of pixels of each colour.  A percentage is   *)
(* in thousandths (round(x, 3)).                                           *)
(***************************************************************************)

\* ColorExtractor.__init__ defaults
resize_dim == 150
min_pixel_threshold == 100

\* Largest n_colors a ColorExtractor is constructed with.
MaxColors == 3

\* pixel colours of the images the model uses
PixelBlack == <<0, 0, 0>>
PixelWhite == <<255, 255, 255>>
PixelLightGray == <<210, 210, 210>>
PixelRed == <<200, 30, 30>>
PixelNavy == <<0, 0, 128>>
PixelOlive == <<128, 128, 0>>
PixelColours ==
    {PixelBlack, PixelWhite, PixelLightGray, PixelRed, PixelNavy, PixelOlive}

Max3(a, b, c) == Max(a, Max(b, c))
Min3(a, b, c) == Min(a, Min(b, c))

\* is_background_color, in integers: brightness = (r+g+b)/3 and
\* saturation = (max-min)/max
is_background_color(rgb) ==
    LET r == rgb[1]
        g == rgb[2]
        b == rgb[3]
        max_val == Max3(r, g, b)
        min_val == Min3(r, g, b)
    IN  \/ r + g + b < 3 * 20
        \/ r + g + b > 3 * 245
        \/ /\ (IF max_val > 0 THEN 100 * (max_val - min_val) < 5 * max_val ELSE TRUE)
           /\ r + g + b > 3 * 200

\* the images: every colour but white has one of a few pixel counts, white
\* fills the rest of the resize_dim x resize_dim pixels
Images ==
    {[c \in PixelColours |->
        CASE c = PixelBlack -> k
          [] c = PixelLightGray -> g
          [] c = PixelRed -> r
          [] c = PixelNavy -> n
          [] c = PixelOlive -> o
          [] OTHER -> resize_dim * resize_dim - k - g - r - n - o] :
        k \in {0, 40}, g \in {0, 40},
        r \in {0, 40, 59, 60}, n \in {0, 40, 60}, o \in {0, 40, 60}}

RECURSIVE SumOver(_, _)
\* the sum of f over the finite set S
SumOver(f, S) ==
    IF S = {} THEN 0
    ELSE LET x == CHOOSE y \in S : TRUE
         IN  f[x] + SumOver(f, S \ {x})

\* the colours whose pixels are clustered: pixels[mask], or all of them
KeptColours(img, remove_background) ==
    {c \in PixelColours :
        img[c] > 0 /\ (remove_background => ~is_background_color(c))}

\* min(n_colors, len(pixels) // 20), then max(2, .)
NClusters(n_colors, n_pixels) == Max(2, Min(n_colors, n_pixels \div 20))

\* round(count / total_pixels, 3) in thousandths.  (No count the model uses
\* is an exact tie, where the binary value of the quotient decides.)
Percentage(count, total_pixels) == RoundHalfEven(1000 * count, total_pixels)

\* inserts x into a sequence that is sorted by descending percentage, after
\* the entries of equal percentage (list.sort is stable, also with reverse)
RECURSIVE InsertDesc(_, _)
InsertDesc(sorted, x) ==
    IF sorted = <<>> THEN <<x>>
    ELSE IF Head(sorted).percentage >= x.percentage
         THEN <<Head(sorted)>> \o InsertDesc(Tail(sorted), x)
         ELSE <<x>> \o sorted

\* the sort with reverse=True left out: ascending percentage
RECURSIVE SortAscending(_)
SortAscending(results) ==
    IF results = <<>> THEN <<>>
    ELSE LET rest == SortAscending(SubSeq(results, 1, Len(results) - 1))
             x == results[Len(results)]
             k == Cardinality({i \in 1..Len(rest) : rest[i].percentage <= x.percentage})
         IN  SubSeq(rest, 1, k) \o <<x>> \o SubSeq(rest, k + 1, Len(rest))

RECURSIVE SortDescending(_)
\* results.sort(key=lambda x: x.percentage, reverse=True)
SortDescending(results) ==
    IF results = <<>> THEN <<>>
    ELSE InsertDesc(SortDescending(SubSeq(results, 1, Len(results) - 1)),
                    results[Len(results)])

\* results[0].is_dominant = True
MarkDominant(results) ==
    [i \in 1..Len(results) |->
        [results[i] EXCEPT !.is_dominant = (i = 1)]]

\* the placeholder for too few pixels: Unknown, #808080, 100%
UnknownColor ==
    <<[cluster |-> 0, name |-> "Unknown", hex |-> "#808080", rgb |-> <<128, 128, 128>>,
       percentage |-> 1000, is_dominant |-> TRUE]>>

\* extract_colors after KMeans.fit: labels maps every kept colour to its
\* cluster 1..n_clusters
ExtractedColors(img, kept, n_clusters, labels) ==
    LET total_pixels == SumOver(img, kept)
        count(i) == SumOver(img, {c \in kept : labels[c] = i})
        results == [i \in 1..n_clusters |->
                      [cluster |-> i,
                       percentage |-> Percentage(count(i), total_pixels),
                       is_dominant |-> FALSE]]
    IN  MarkDominant(SortDescending(results))

\* the test with the threshold itself counted as too few
TooFewPixelsInclusive(n_pixels) == n_pixels <= min_pixel_threshold

\* len(pixels) < self.min_pixel_threshold
TooFewPixels(n_pixels) == n_pixels < min_pixel_threshold

ColorInit ==
    /\ colorPc = "call"
    /\ colorArgs \in [image : Images, remove_background : BOOLEAN,
                      n_colors : 1..MaxColors]
    /\ colorResult = <<>>

ColorIdle ==
    /\ colorPc = "call"
    /\ colorArgs = [image |-> [c \in PixelColours |->
                                 IF c = PixelWhite THEN resize_dim * resize_dim ELSE 0],
                    remove_background |-> TRUE, n_colors |-> 1]
    /\ colorResult = <<>>

\* extract_colors: fewer than min_pixel_threshold pixels left
ExtractPlaceholder ==
    /\ colorPc = "call"
    /\ LET kept == KeptColours(colorArgs.image, colorArgs.remove_background)
       IN  TooFewPixels(SumOver(colorArgs.image, kept))
    /\ colorResult' = UnknownColor
    /\ colorPc' = "return"
    /\ UNCHANGED colorArgs

\* extract_colors: KMeans puts every pixel in one of n_clusters clusters
\* (pixels of one colour in the same one)
ExtractClusters ==
    /\ colorPc = "call"
    /\ LET kept == KeptColours(colorArgs.image, colorArgs.remove_background)
           n_pixels == SumOver(colorArgs.image, kept)
           n_clusters == NClusters(colorArgs.n_colors, n_pixels)
       IN  /\ ~TooFewPixels(n_pixels)
           /\ \E labels \in [kept -> 1..n_clusters] :
                 colorResult' =
                     ExtractedColors(colorArgs.image, kept, n_clusters, labels)
    /\ colorPc' = "return"
    /\ UNCHANGED colorArgs

ColorStep == ExtractPlaceholder \/ ExtractClusters

(***************************************************************************)
(* Embeddings and similarity.  A unit-norm embedding is a vector of        *)
(* integers of Euclidean norm EmbeddingScale; a similarity is in           *)
(* ten-thousandths.                                                        *)
(***************************************************************************)
EmbeddingScale == 25

Embeddings ==
    {<<25, 0>>, <<0, 25>>, <<-25, 0>>, <<7, 24>>, <<24, 7>>, <<15, 20>>,
     <<-7, -24>>, <<-15, 20>>}

\* np.dot(embedding1, embedding2), times EmbeddingScale^2
Dot(a, b) == a[1] * b[1] + a[2] * b[2]

\* np.linalg.norm(vec), times EmbeddingScale
Norm(a) == CHOOSE n \in 0..(2 * EmbeddingScale) : n * n = Dot(a, a)

\* StyleMatchingService.calculate_similarity: the cosine, clamped to [0, 1]
StyleSimilarity(embedding1, embedding2) ==
    LET similarity ==
            (10000 * Dot(embedding1, embedding2))
                \div (Norm(embedding1) * Norm(embedding2))
    IN  Max(0, Min(10000, similarity))

\* FashionCLIPService.calculate_similarity: float(np.dot(embedding1, embedding2))
FashionSimilarity(embedding1, embedding2) ==
    (10000 * Dot(embedding1, embedding2)) \div (EmbeddingScale * EmbeddingScale)

calculate_similarity(svc, embedding1, embedding2) ==
    IF svc = "FashionCLIPService" THEN FashionSimilarity(embedding1, embedding2)
    ELSE StyleSimilarity(embedding1, embedding2)

SimInit ==
    /\ simPc = "call"
    /\ simArgs \in [service : Services, embedding1 : Embeddings,
                    embedding2 : Embeddings]
    /\ simResult = 0

SimIdle ==
    /\ simPc = "call"
    /\ simArgs = [service |-> "FashionCLIPService", embedding1 |-> <<25, 0>>,
                  embedding2 |-> <<25, 0>>]
    /\ simResult = 0

SimCall ==
    /\ simPc = "call"
    /\ simResult' = calculate_similarity(simArgs.service, simArgs.embedding1,
                                         simArgs.embedding2)
    /\ simPc' = "return"
    /\ UNCHANGED simArgs

(***************************************************************************)
(* Discovery (routers/discovery.py).  The garments table is a function     *)
(* from garment id to row; a garment's creation time is its id, the        *)
(* candidates are read in an order the database chooses.                   *)
(***************************************************************************)
GarmentIds == {1, 2, 3}
\* a garment id that is not in the table
MissingGarmentId == 0

\* Largest page and page_size of a request.
MaxPage == 2
MaxPageSize == 2

StoredEmbeddings == {None, Some(<<25, 0>>), Some(<<7, 24>>), Some(<<-25, 0>>)}
QueryEmbeddings == {<<25, 0>>, <<24, 7>>}
Queries == {None, Some(""), Some("red vintage dress"), Some("Blue Jeans")}

\* the columns of a garment that never change in the model
GarmentRow(g) ==
    CASE g % 3 = 1 ->
            [category |-> "Dress", condition |-> "good", brand |-> None,
             story_text |-> Some("vintage find red"),
             style_attributes |-> Some([colors |-> <<"red">>,
                                        style_tags |-> <<"vintage">>]),
             provenance |-> Some([source |-> "Vintage"])]
      [] g % 3 = 2 ->
            [category |-> "jeans", condition |-> "new", brand |-> Some("zara"),
             story_text |-> None, style_attributes |-> None, provenance |-> None]
      [] OTHER ->
            [category |-> "Dress", condition |-> "excellent", brand |-> None,
             story_text |-> None,
             style_attributes |-> Some([colors |-> <<"red", "blue">>,
                                        style_tags |-> <<"vintage">>]),
             provenance |-> None]

created_at(g) == g
owner_id(g) == g % 2

\* str.split() as a set of words
Words(s) ==
    CASE s = "red vintage dress" -> {"red", "vintage", "dress"}
      [] s = "blue jeans" -> {"blue", "jeans"}
      [] s = "vintage find red" -> {"vintage", "find", "red"}
      [] OTHER -> {}

\* the elements of a sequence
Range(seq) == {seq[i] : i \in 1..Len(seq)}

\* _calculate_text_similarity
_calculate_text_similarity(query, g) ==
    LET query_lower == Lower(query)
        row == GarmentRow(g)
        category_score ==
            IF Contains(query_lower, Lower(row.category)) THEN 3000 ELSE 0
        brand_score ==
            IF row.brand # None /\ Contains(query_lower, Lower(TheValue(row.brand)))
            THEN 2000 ELSE 0
        story_score ==
            IF row.story_text # None
            THEN LET overlap == Cardinality(
                        Words(query_lower) \cap Words(Lower(TheValue(row.story_text))))
                 IN  Min(overlap * 1000, 4000)
            ELSE 0
        color_score ==
            IF /\ row.style_attributes # None
               /\ \E c \in Range(TheValue(row.style_attributes).colors) :
                      Contains(query_lower, Lower(c))
            THEN 1000 ELSE 0
    IN  Min(category_score + brand_score + story_score + color_score, 10000)

\* the first element of seq that the query contains, as a 0- or 1-element list
FirstContained(query_lower, seq, label) ==
    LET hits == {i \in 1..Len(seq) : Contains(query_lower, Lower(seq[i]))}
    IN  IF hits = {} THEN <<>>
        ELSE <<label, seq[CHOOSE i \in hits : \A j \in hits : i <= j]>>

\* _generate_match_reasons; a reason is the template's name and its value
_generate_match_reasons(query, g) ==
    LET query_lower == Lower(query)
        row == GarmentRow(g)
        r1 == IF Contains(query_lower, Lower(row.category))
              THEN << <<"Matches category", row.category>> >> ELSE <<>>
        r2 == IF row.style_attributes # None
              THEN LET t == FirstContained(query_lower,
                               TheValue(row.style_attributes).style_tags, "style")
                   IN  IF t = <<>> THEN <<>> ELSE <<t>>
              ELSE <<>>
        r3 == IF row.style_attributes # None
              THEN LET c == FirstContained(query_lower,
                               TheValue(row.style_attributes).colors, "colorway")
                   IN  IF c = <<>> THEN <<>> ELSE <<c>>
              ELSE <<>>
        r4 == IF /\ row.provenance # None
                 /\ Contains(query_lower, Lower(TheValue(row.provenance).source))
              THEN << <<"item", Lower(TheValue(row.provenance).source)>> >> ELSE <<>>
        reasons == r1 \o r2 \o r3 \o r4
    IN  IF reasons = <<>> THEN << <<"Style compatibility", "">> >>
        ELSE SubSeq(reasons, 1, Min(3, Len(reasons)))

condition_rank(condition) ==
    Get(("new" :> 4) @@ ("excellent" :> 3) @@ ("good" :> 2) @@ ("fair" :> 1),
        condition, 0)

StyleColors(row) ==
    IF row.style_attributes = None THEN {}
    ELSE Range(TheValue(row.style_attributes).colors)
StyleTags(row) ==
    IF row.style_attributes = None THEN {}
    ELSE Range(TheValue(row.style_attributes).style_tags)

\* StyleMatchingService.generate_match_reasons
generate_match_reasons(source, g) ==
    LET q == GarmentRow(source)
        mt == GarmentRow(g)
        r1 == IF StyleColors(q) \cap StyleColors(mt) # {}
              THEN << <<"Shared colors", StyleColors(q) \cap StyleColors(mt)>> >>
              ELSE <<>>
        r2 == IF StyleTags(q) \cap StyleTags(mt) # {}
              THEN << <<"Similar style", StyleTags(q) \cap StyleTags(mt)>> >>
              ELSE <<>>
        r3 == IF q.category = mt.category
              THEN << <<"Same category", mt.category>> >> ELSE <<>>
        r4 == IF condition_rank(mt.condition) >= condition_rank(q.condition)
              THEN << <<"Great condition", mt.condition>> >> ELSE <<>>
        reasons == r1 \o r2 \o r3 \o r4
    IN  IF reasons = <<>> THEN << <<"Style compatibility match", "">> >>
        ELSE reasons

\* round(similarity, 3): ten-thousandths to thousandths
Round3(similarity) == RoundHalfEven(similarity, 10)

\* the orders in which the database can return the rows of a set
ReadOrders(S) ==
    {seq \in [1..Cardinality(S) -> S] :
        \A i, j \in 1..Cardinality(S) : i # j => seq[i] # seq[j]}

\* list.sort(key=..., reverse=True): descending by key, equal keys in their
\* former order.  keys[i] is the key of seq[i].
SortDescendingStable(seq, keys) ==
    LET pos(i) == 1 + Cardinality({j \in 1..Len(seq) : keys[j] > keys[i]})
                    + Cardinality({j \in 1..(i - 1) : keys[j] = keys[i]})
    IN  [k \in 1..Len(seq) |-> seq[CHOOSE i \in 1..Len(seq) : pos(i) = k]]

\* scored_results[start_idx:end_idx]
PageSlice(seq, page, page_size) ==
    LET start_idx == (page - 1) * page_size
        end_idx == start_idx + page_size
    IN  SubSeq(seq, start_idx + 1, Min(end_idx, Len(seq)))

\* (total + page_size - 1) // page_size
PageCount(total, page_size) == (total + page_size - 1) \div page_size

\* minimum similarity of discover_garments and of find_similar_garments
DiscoverThreshold == 1000
SimilarThreshold == 3000

Response(results, query_embedding, total, page, page_size) ==
    [status |-> 200, results |-> results, query_embedding |-> query_embedding,
     total |-> total, page |-> page, page_size |-> page_size,
     pages |-> PageCount(total, page_size)]
\* the early return of a search without candidates
EmptyResponse(query_embedding, page, page_size) ==
    [status |-> 200, results |-> <<>>, query_embedding |-> query_embedding,
     total |-> 0, page |-> page, page_size |-> page_size, pages |-> 0]
\* an HTTPException
ErrorResponse(status_code, page, page_size) ==
    [status |-> status_code, results |-> <<>>, query_embedding |-> None,
     total |-> 0, page |-> page, page_size |-> page_size, pages |-> 0]
NoResponse == ErrorResponse(0, 0, 0)

\* the DiscoveryResult list of one page
DiscoveryResults(scored, page, page_size) ==
    LET paginated == PageSlice(scored, page, page_size)
    IN  [i \in 1..Len(paginated) |->
            [garment |-> paginated[i].garment,
             similarity_score |-> Round3(paginated[i].similarity),
             match_reasons |-> paginated[i].reasons]]

\* keeps the entries whose similarity reaches the threshold
AtLeast(scored, threshold) == SelectSeq(scored, LAMBDA r : r.similarity >= threshold)

\* the same with > in place of >=
Above(scored, threshold) == SelectSeq(scored, LAMBDA r : r.similarity > threshold)

\* the `if similarity >= ...` in the scoring loops
Thresholded(scored, threshold) == AtLeast(scored, threshold)

\* paginating the candidates as read, sorting the page only
PaginateThenSort(scored, page, page_size) ==
    LET paginated == PageSlice(scored, page, page_size)
    IN  DiscoveryResults(
            SortDescendingStable(paginated,
                [i \in 1..Len(paginated) |-> paginated[i].similarity]),
            1, page_size)

\* sort, then paginate, then build the response list
SortThenPaginate(scored, page, page_size) ==
    DiscoveryResults(
        SortDescendingStable(scored, [i \in 1..Len(scored) |-> scored[i].similarity]),
        page, page_size)

\* the candidates of discover_garments: active garments that pass the
\* category filter (Garment.category.ilike)
DiscoverCandidates(category) ==
    {g \in GarmentIds :
        /\ garments[g].status = "active"
        /\ category # None =>
              Contains(Lower(GarmentRow(g).category), Lower(TheValue(category)))}

\* the candidates of find_similar_garments
SimilarCandidates(garment_id, exclude_same_owner) ==
    {g \in GarmentIds :
        /\ g # garment_id
        /\ garments[g].status = "active"
        /\ garments[g].embedding # None
        /\ exclude_same_owner => owner_id(g) # owner_id(garment_id)}

DiscInit ==
    /\ garments \in [GarmentIds -> [status : {"active", "sold"},
                                    embedding : StoredEmbeddings]]
    /\ discPc = "call"
    /\ discReq \in
          [endpoint : {"discover"}, q : Queries, category : {None, Some("DRESS")},
           garment_id : {MissingGarmentId}, exclude_same_owner : {TRUE},
           page : 1..MaxPage, page_size : 1..MaxPageSize]
          \cup
          [endpoint : {"similar"}, q : {None}, category : {None},
           garment_id : GarmentIds \cup {MissingGarmentId},
           exclude_same_owner : BOOLEAN,
           page : 1..MaxPage, page_size : 1..MaxPageSize]
    /\ discRead = <<>>
    /\ discResp = NoResponse

DiscIdle ==
    /\ garments = [g \in GarmentIds |-> [status |-> "active", embedding |-> None]]
    /\ discPc = "call"
    /\ discReq = [endpoint |-> "discover", q |-> None, category |-> None,
                  garment_id |-> MissingGarmentId, exclude_same_owner |-> TRUE,
                  page |-> 1, page_size |-> 1]
    /\ discRead = <<>>
    /\ discResp = NoResponse

\* discover_garments with q: generate_text_embedding raises
DiscoverUnavailable ==
    /\ discPc = "call" /\ discReq.endpoint = "discover"
    /\ discReq.q # None /\ discReq.q # Some("")
    /\ discResp' = ErrorResponse(503, discReq.page, discReq.page_size)
    /\ discPc' = "return"
    /\ UNCHANGED <<garments, discReq, discRead>>

\* discover_garments with q: score, threshold, sort, paginate
DiscoverWithQuery ==
    /\ discPc = "call" /\ discReq.endpoint = "discover"
    /\ discReq.q # None /\ discReq.q # Some("")
    /\ \E query_embedding \in QueryEmbeddings :
       \E candidates \in ReadOrders(DiscoverCandidates(discReq.category)) :
          LET q == TheValue(discReq.q)
              similarity(g) ==
                  IF garments[g].embedding # None
                  THEN StyleSimilarity(query_embedding, TheValue(garments[g].embedding))
                  ELSE _calculate_text_similarity(q, g)
              scored == Thresholded(
                  [i \in 1..Len(candidates) |->
                      [garment |-> candidates[i],
                       similarity |-> similarity(candidates[i]),
                       reasons |-> _generate_match_reasons(q, candidates[i])]],
                  DiscoverThreshold)
          IN  /\ discRead' = candidates
              /\ discResp' =
                    IF candidates = <<>>
                    THEN EmptyResponse(Some(query_embedding),
                                       discReq.page, discReq.page_size)
                    ELSE Response(
                            SortThenPaginate(scored, discReq.page, discReq.page_size),
                            Some(query_embedding),
                            Len(scored), discReq.page, discReq.page_size)
    /\ discPc' = "return"
    /\ UNCHANGED <<garments, discReq>>

\* discover_garments without q: every candidate at 0.5, newest first
DiscoverRecent ==
    /\ discPc = "call" /\ discReq.endpoint = "discover"
    /\ discReq.q = None \/ discReq.q = Some("")
    /\ \E candidates \in ReadOrders(DiscoverCandidates(discReq.category)) :
          LET scored == [i \in 1..Len(candidates) |->
                            [garment |-> candidates[i], similarity |-> 5000,
                             reasons |-> << <<"Recently listed", "">> >>]]
              sorted == SortDescendingStable(scored,
                            [i \in 1..Len(scored) |-> created_at(scored[i].garment)])
          IN  /\ discRead' = candidates
              /\ discResp' =
                    IF candidates = <<>>
                    THEN EmptyResponse(None, discReq.page, discReq.page_size)
                    ELSE Response(
                            DiscoveryResults(sorted, discReq.page, discReq.page_size),
                            None, Len(scored), discReq.page, discReq.page_size)
    /\ discPc' = "return"
    /\ UNCHANGED <<garments, discReq>>

\* find_similar_garments: the source garment does not exist
SimilarNotFound ==
    /\ discPc = "call" /\ discReq.endpoint = "similar"
    /\ discReq.garment_id \notin GarmentIds
    /\ discResp' = ErrorResponse(404, discReq.page, discReq.page_size)
    /\ discPc' = "return"
    /\ UNCHANGED <<garments, discReq, discRead>>

\* a source garment without embedding answered with the empty page
SimilarNoEmbeddingEmptyPage ==
    /\ discPc = "call" /\ discReq.endpoint = "similar"
    /\ discReq.garment_id \in GarmentIds
    /\ garments[discReq.garment_id].embedding = None
    /\ discResp' = EmptyResponse(None, discReq.page, discReq.page_size)
    /\ discPc' = "return"
    /\ UNCHANGED <<garments, discReq, discRead>>

\* find_similar_garments: the source garment has no embedding
SimilarNoEmbedding ==
    /\ discPc = "call" /\ discReq.endpoint = "similar"
    /\ discReq.garment_id \in GarmentIds
    /\ garments[discReq.garment_id].embedding = None
    /\ discResp' = ErrorResponse(422, discReq.page, discReq.page_size)
    /\ discPc' = "return"
    /\ UNCHANGED <<garments, discReq, discRead>>

\* find_similar_garments: score, threshold, sort, paginate
SimilarRanked ==
    /\ discPc = "call" /\ discReq.endpoint = "similar"
    /\ discReq.garment_id \in GarmentIds
    /\ garments[discReq.garment_id].embedding # None
    /\ \E candidates \in ReadOrders(
             SimilarCandidates(discReq.garment_id, discReq.exclude_same_owner)) :
          LET source == discReq.garment_id
              scored == Thresholded(
                  [i \in 1..Len(candidates) |->
                      [garment |-> candidates[i],
                       similarity |-> StyleSimilarity(
                            TheValue(garments[source].embedding),
                            TheValue(garments[candidates[i]].embedding)),
                       reasons |-> generate_match_reasons(source, candidates[i])]],
                  SimilarThreshold)
          IN  /\ discRead' = candidates
              /\ discResp' =
                    IF candidates = <<>>
                    THEN EmptyResponse(garments[source].embedding,
                                       discReq.page, discReq.page_size)
                    ELSE Response(
                            SortThenPaginate(scored, discReq.page, discReq.page_size),
                            garments[source].embedding,
                            Len(scored), discReq.page, discReq.page_size)
    /\ discPc' = "return"
    /\ UNCHANGED <<garments, discReq>>

DiscStep ==
    \/ DiscoverUnavailable
    \/ DiscoverWithQuery
    \/ DiscoverRecent
    \/ SimilarNotFound
    \/ SimilarNoEmbedding
    \/ SimilarRanked

(***************************************************************************)
(* Batch aggregation (routers/analysis.py, aggregate_predictions).  A      *)
(* classification result is its "category" list; a confidence is in        *)
(* thousandths.                                                            *)
(***************************************************************************)
\* Most images of an aggregated batch.
MaxAggImages == 3

\* an entry of a category list: {"label": ..., "confidence": ...}
Vote(label, confidence) == [label |-> label, confidence |-> confidence]

\* the category lists an image contributes
AggImageResults ==
    { <<>>,
      <<Vote("dress", 900)>>,
      <<Vote("dress", 800)>>,
      <<Vote("dress", 0)>>,
      <<Vote("dress", 0), Vote("jacket", 0)>>,
      <<Vote("jeans", 100), Vote("dress", 900)>>,
      <<Vote("coat", 800), Vote("jacket", 900)>>,
      <<Vote("jacket", 600), Vote("coat", 300), Vote("dress", 100)>> }

\* the sequences over S of length 0..n
SeqUpTo(S, n) == UNION {[1..k -> S] : k \in 0..n}

\* the entries of all results, in iteration order
RECURSIVE Flatten(_)
Flatten(results) ==
    IF results = <<>> THEN <<>>
    ELSE Head(results) \o Flatten(Tail(results))

\* category_votes[label] after the loops
CategoryVote(entries, label) ==
    SumOver([i \in 1..Len(entries) |->
                IF entries[i].label = label THEN entries[i].confidence ELSE 0],
            1..Len(entries))

\* category_votes.items(): the labels in the order of their first vote
VotedLabels(entries) ==
    LET first == {i \in 1..Len(entries) :
                     \A j \in 1..(i - 1) : entries[j].label # entries[i].label}
        nth(k) == CHOOSE i \in first : Cardinality({j \in first : j < i}) = k - 1
    IN  [k \in 1..Cardinality(first) |-> entries[nth(k)].label]

\* the whole sorted list in place of its first three
TopAll(sorted) == sorted

\* sorted(...)[:3]
Top3(sorted) == SubSeq(sorted, 1, Min(3, Len(sorted)))

aggregate_predictions(results) ==
    LET entries == Flatten(results)
        labels == VotedLabels(entries)
        total_confidence ==
            SumOver([i \in 1..Len(entries) |-> entries[i].confidence],
                    1..Len(entries))
        sorted == SortDescendingStable(labels,
                      [k \in 1..Len(labels) |-> CategoryVote(entries, labels[k])])
        top == Top3(sorted)
    IN  IF total_confidence > 0
        THEN [k \in 1..Len(top) |->
                 [label |-> top[k],
                  confidence |-> RoundHalfEven(1000 * CategoryVote(entries, top[k]),
                                               total_confidence)]]
        ELSE <<>>

AggInit ==
    /\ aggPc = "call"
    /\ aggArgs \in SeqUpTo(AggImageResults, MaxAggImages)
    /\ aggResult = <<>>

AggIdle ==
    /\ aggPc = "call"
    /\ aggArgs = <<>>
    /\ aggResult = <<>>

AggCall ==
    /\ aggPc = "call"
    /\ aggResult' = aggregate_predictions(aggArgs)
    /\ aggPc' = "return"
    /\ UNCHANGED aggArgs

(***************************************************************************)
(* Analysis (routers/analysis.py).  An uploaded file is one of four kinds; *)
(* the log records each piece of work done for the request.                *)
(***************************************************************************)
\* Most files of a request.
MaxFiles == 9

\* the cap of analyze_multiple_images
MaxBatchImages == 8

\* "ok": allowed type, at most 10MB, decodable; "bad_type": content type
\* outside allowed_types, otherwise fine; "too_large": more than 10MB,
\* otherwise fine; "undecodable": Image.open raises
FileKinds == {"ok", "bad_type", "too_large", "undecodable"}

\* file lists with at most one file that is not "ok"
FileLists ==
    {[i \in 1..n |-> IF i = k THEN kind ELSE "ok"] :
        n \in 1..MaxFiles, k \in 0..MaxFiles, kind \in FileKinds}

Event(op, file) == [op |-> op, file |-> file]

\* the work that is a model call
ModelOps == {"get_service", "load", "classify", "grade", "encode"}

\* FashionCLIPService.initialize: nothing when the model is loaded, else one
\* load attempt, which raises when loading fails
InitializeEvents == IF clipModel THEN <<>> ELSE <<Event("load", 0)>>
InitializeRaises == ~clipModel /\ ~clipLoadable

AnInit ==
    /\ anReq \in [endpoint : {"single"}, files : {<<kind>> : kind \in FileKinds}]
                 \cup [endpoint : {"batch"}, files : FileLists]
    /\ anPc = "start"
    /\ anIdx = 1
    /\ anLog = <<>>
    /\ anResp = 0
    /\ \E state \in {<<FALSE, FALSE>>, <<TRUE, FALSE>>, <<TRUE, TRUE>>} :
          clipService = state[1] /\ clipModel = state[2]
    /\ clipLoadable \in BOOLEAN

AnIdle ==
    /\ anReq = [endpoint |-> "single", files |-> <<"ok">>]
    /\ anPc = "start"
    /\ anIdx = 1
    /\ anLog = <<>>
    /\ anResp = 0
    /\ clipService = FALSE /\ clipModel = FALSE
    /\ clipLoadable = TRUE

\* the response is sent and the handler ends
Respond(status_code, log) ==
    /\ anResp' = status_code
    /\ anLog' = log
    /\ anPc' = "done"

\* analyze_garment_image up to the decoded image: type, size, decode
SingleValidate ==
    /\ anPc = "start" /\ anReq.endpoint = "single"
    /\ LET file == anReq.files[1]
       IN  IF file = "bad_type" THEN Respond(400, anLog)
           ELSE IF file = "too_large"
                THEN Respond(413, anLog \o <<Event("read", 1)>>)
           ELSE IF file = "undecodable"
                THEN Respond(400, anLog \o <<Event("read", 1), Event("decode", 1)>>)
           ELSE /\ anLog' = anLog \o <<Event("read", 1), Event("decode", 1)>>
                /\ anPc' = "service"
                /\ UNCHANGED anResp
    /\ UNCHANGED <<anReq, anIdx, clipService, clipModel, clipLoadable>>

\* get_fashion_clip_service: the singleton is created and initialized the
\* first time; an exception of initialize leaves the singleton set and
\* reaches the global exception handler (500)
GetService(next_pc) ==
    /\ anPc = "service"
    /\ clipService' = TRUE
    /\ IF clipService
       THEN /\ anLog' = anLog \o <<Event("get_service", 0)>>
            /\ anPc' = next_pc
            /\ UNCHANGED <<anResp, clipModel>>
       ELSE LET log == anLog \o <<Event("get_service", 0)>> \o InitializeEvents
            IN  IF InitializeRaises
                THEN Respond(500, log) /\ UNCHANGED clipModel
                ELSE /\ anLog' = log
                     /\ clipModel' = TRUE
                     /\ anPc' = next_pc
                     /\ UNCHANGED anResp
    /\ UNCHANGED <<anReq, anIdx, clipLoadable>>

SingleGetService == anReq.endpoint = "single" /\ GetService("analyze")

\* the asyncio.gather of classify_image, extract_with_metadata, grade and
\* encode_image, and the response built from their results
SingleAnalyze ==
    /\ anPc = "analyze" /\ anReq.endpoint = "single"
    /\ IF InitializeRaises
       THEN /\ Respond(500, anLog \o InitializeEvents
                             \o <<Event("extract_colors", 1), Event("grade", 1)>>
                             \o InitializeEvents)
            /\ UNCHANGED clipModel
       ELSE /\ Respond(200, anLog \o InitializeEvents
                             \o <<Event("classify", 1), Event("extract_colors", 1),
                                  Event("grade", 1), Event("encode", 1)>>)
            /\ clipModel' = TRUE
    /\ UNCHANGED <<anReq, anIdx, clipService, clipLoadable>>

\* a cap that no request exceeds
CapNeverExceeded(files) == FALSE

\* len(files) > 8
CapExceeded(files) == Len(files) > MaxBatchImages

\* analyze_multiple_images: the cap
BatchCheckCap ==
    /\ anPc = "start" /\ anReq.endpoint = "batch"
    /\ IF CapExceeded(anReq.files)
       THEN Respond(400, anLog)
       ELSE anPc' = "service" /\ UNCHANGED <<anLog, anResp>>
    /\ UNCHANGED <<anReq, anIdx, clipService, clipModel, clipLoadable>>

BatchGetService == anReq.endpoint = "batch" /\ GetService("loop")

\* one turn of the loop: read, Image.open, classify_image.  Neither the
\* content type nor the size is looked at; an exception of Image.open or of
\* initialize reaches the global exception handler (500)
BatchImage ==
    /\ anPc = "loop" /\ anReq.endpoint = "batch"
    /\ anIdx <= Len(anReq.files)
    /\ LET opened == anLog \o <<Event("read", anIdx), Event("decode", anIdx)>>
       IN  IF anReq.files[anIdx] = "undecodable"
           THEN Respond(500, opened) /\ UNCHANGED <<anIdx, clipModel>>
           ELSE IF InitializeRaises
           THEN Respond(500, opened \o InitializeEvents) /\ UNCHANGED <<anIdx, clipModel>>
           ELSE /\ anLog' = opened \o InitializeEvents \o <<Event("classify", anIdx)>>
                /\ clipModel' = TRUE
                /\ anIdx' = anIdx + 1
                /\ UNCHANGED <<anPc, anResp>>
    /\ UNCHANGED <<anReq, clipService, clipLoadable>>

\* aggregate_predictions and the BatchAnalysisResponse
BatchRespond ==
    /\ anPc = "loop" /\ anReq.endpoint = "batch"
    /\ anIdx > Len(anReq.files)
    /\ Respond(200, anLog \o <<Event("aggregate", 0)>>)
    /\ UNCHANGED <<anReq, anIdx, clipService, clipModel, clipLoadable>>

AnStep ==
    \/ SingleValidate
    \/ SingleGetService
    \/ SingleAnalyze
    \/ BatchCheckCap
    \/ BatchGetService
    \/ BatchImage
    \/ BatchRespond

(***************************************************************************)
(* Classifier labels (services/fashion_clip.py, _clean_label).  A prompt   *)
(* or label is the sequence of its words, which single spaces separate.    *)
(***************************************************************************)
CATEGORY_PROMPTS ==
    { <<"a", "photo", "of", "a", "t-shirt">>,
      <<"a", "photo", "of", "a", "dress">>,
      <<"a", "photo", "of", "a", "jacket">>,
      <<"a", "photo", "of", "jeans">>,
      <<"a", "photo", "of", "a", "skirt">>,
      <<"a", "photo", "of", "a", "sweater">>,
      <<"a", "photo", "of", "a", "coat">>,
      <<"a", "photo", "of", "a", "blouse">>,
      <<"a", "photo", "of", "shorts">>,
      <<"a", "photo", "of", "a", "hoodie">>,
      <<"a", "photo", "of", "trousers">>,
      <<"a", "photo", "of", "a", "suit">>,
      <<"a", "photo", "of", "a", "cardigan">>,
      <<"a", "photo", "of", "sneakers">>,
      <<"a", "photo", "of", "boots">>,
      <<"a", "photo", "of", "high", "heels">>,
      <<"a", "photo", "of", "a", "handbag">>,
      <<"a", "photo", "of", "a", "scarf">>,
      <<"a", "photo", "of", "a", "hat">>,
      <<"a", "photo", "of", "a", "belt">>,
      <<"a", "photo", "of", "a", "swimsuit">>,
      <<"a", "photo", "of", "a", "jumpsuit">>,
      <<"a", "photo", "of", "a", "vest">>,
      <<"a", "photo", "of", "sandals">>,
      <<"a", "photo", "of", "an", "athletic", "top">>,
      <<"a", "photo", "of", "athletic", "leggings">>,
      <<"a", "photo", "of", "a", "denim", "jacket">> }

COLOR_PROMPTS ==
    { <<"black", "colored", "clothing">>,
      <<"white", "colored", "clothing">>,
      <<"navy", "blue", "colored", "clothing">>,
      <<"red", "colored", "clothing">>,
      <<"green", "colored", "clothing">>,
      <<"grey", "colored", "clothing">>,
      <<"beige", "colored", "clothing">>,
      <<"brown", "colored", "clothing">>,
      <<"pink", "colored", "clothing">>,
      <<"yellow", "colored", "clothing">>,
      <<"orange", "colored", "clothing">>,
      <<"purple", "colored", "clothing">>,
      <<"olive", "colored", "clothing">>,
      <<"cream", "colored", "clothing">>,
      <<"burgundy", "colored", "clothing">>,
      <<"teal", "colored", "clothing">>,
      <<"multicolored", "clothing", "with", "multiple", "colors">> }

MATERIAL_PROMPTS ==
    { <<"clothing", "made", "of", "cotton", "fabric">>,
      <<"clothing", "made", "of", "denim", "fabric">>,
      <<"clothing", "made", "of", "leather", "material">>,
      <<"clothing", "made", "of", "wool", "fabric">>,
      <<"clothing", "made", "of", "silk", "fabric">>,
      <<"clothing", "made", "of", "polyester", "fabric">>,
      <<"clothing", "made", "of", "linen", "fabric">>,
      <<"clothing", "made", "of", "cashmere", "fabric">>,
      <<"clothing", "made", "of", "velvet", "fabric">>,
      <<"clothing", "made", "of", "suede", "material">>,
      <<"clothing", "made", "of", "nylon", "fabric">>,
      <<"clothing", "made", "of", "knitted", "fabric">>,
      <<"clothing", "made", "of", "chiffon", "fabric">>,
      <<"clothing", "made", "of", "corduroy", "fabric">>,
      <<"clothing", "made", "of", "tweed", "fabric">> }

CONDITION_PROMPTS ==
    { <<"brand", "new", "clothing", "with", "tags">>,
      <<"like", "new", "clothing", "in", "excellent", "condition">>,
      <<"gently", "used", "clothing", "in", "good", "condition">>,
      <<"visibly", "worn", "clothing", "with", "signs", "of", "use">>,
      <<"heavily", "worn", "damaged", "clothing">> }

STYLE_PROMPTS ==
    { <<"minimalist", "style">>,
      <<"vintage", "retro", "style">>,
      <<"streetwear", "style">>,
      <<"bohemian", "style">>,
      <<"classic", "preppy", "style">>,
      <<"athleisure", "style">>,
      <<"avant-garde", "fashion">>,
      <<"casual", "everyday", "wear">>,
      <<"formal", "wear">>,
      <<"workwear", "professional">>,
      <<"grunge", "style">>,
      <<"cottagecore", "style">> }

Prompts ==
    CATEGORY_PROMPTS \cup COLOR_PROMPTS \cup MATERIAL_PROMPTS
        \cup CONDITION_PROMPTS \cup STYLE_PROMPTS

\* prompt.startswith(prefix) for a prefix that ends with a space: the
\* prompt begins with the prefix's words and goes on after them
StartsWith(prompt, prefix_words) ==
    /\ Len(prompt) > Len(prefix_words)
    /\ SubSeq(prompt, 1, Len(prefix_words)) = prefix_words

\* prompt[len(prefix):] when prompt.startswith(prefix), else prompt
StripPrefix(prompt, prefix_words) ==
    IF StartsWith(prompt, prefix_words)
    THEN SubSeq(prompt, Len(prefix_words) + 1, Len(prompt))
    ELSE prompt

\* prompt.replace(" " + word, ""): every word but the first that is this
\* word goes, with the space before it
RemoveWord(prompt, word) ==
    IF prompt = <<>> THEN <<>>
    ELSE <<Head(prompt)>> \o SelectSeq(Tail(prompt), LAMBDA w : w # word)

\* for prefix in ["a pair of ", "a ", "an "]: strip it when the prompt starts with it
StripPrefixes(prompt) ==
    StripPrefix(StripPrefix(StripPrefix(prompt, <<"a", "pair", "of">>), <<"a">>), <<"an">>)

_clean_label(prompt) ==
    RemoveWord(RemoveWord(RemoveWord(RemoveWord(StripPrefixes(prompt),
        "clothing"), "fabric"), "material"), "style")

LabelInit ==
    /\ labelPc = "call"
    /\ labelArgs \in Prompts
    /\ labelResult = <<>>

LabelIdle ==
    /\ labelPc = "call"
    /\ labelArgs = <<"a", "photo", "of", "a", "dress">>
    /\ labelResult = <<>>

LabelCall ==
    /\ labelPc = "call"
    /\ labelResult' = _clean_label(labelArgs)
    /\ labelPc' = "return"
    /\ UNCHANGED labelArgs

(***************************************************************************)
(* Sustainability score (routers/analysis.py).                             *)
(***************************************************************************)
\* Most classified materials of a call.
MaxMaterials == 4

\* sustainable_materials of calculate_sustainability_score
SCORE_SUSTAINABLE_MATERIALS ==
    {"organic cotton", "hemp", "linen", "tencel", "recycled polyester",
     "bamboo", "wool", "silk", "cashmere"}

\* condition_points
CONDITION_POINTS == ("A" :> 15) @@ ("B" :> 10) @@ ("C" :> 5) @@ ("D" :> 3) @@ ("F" :> 0)

\* the material labels of the calls: one without a sustainable material, two with
ScoreLabels == {"clothing made of cotton", "clothing made of wool", "Silk"}

\* the score without the cap of the material points
MaterialCapMissing(score) == score

\* score = min(score, 80)
MaterialCap(score) == Min(score, 80)

calculate_sustainability_score(materials, condition) ==
    LET matching == {i \in 1..Len(materials) :
                        \E sm \in SCORE_SUSTAINABLE_MATERIALS :
                            Contains(Lower(materials[i]), sm)}
        score == MaterialCap(50 + 10 * Cardinality(matching))
    IN  Min(score + Get(CONDITION_POINTS, condition, 0), 100)

ScoreInit ==
    /\ scorePc = "call"
    /\ scoreArgs \in [materials : SeqUpTo(ScoreLabels, MaxMaterials),
                      condition : Grades \cup {"E"}]
    /\ scoreResult = 0

ScoreIdle ==
    /\ scorePc = "call"
    /\ scoreArgs = [materials |-> <<>>, condition |-> "A"]
    /\ scoreResult = 0

ScoreCall ==
    /\ scorePc = "call"
    /\ scoreResult' = calculate_sustainability_score(scoreArgs.materials,
                                                     scoreArgs.condition)
    /\ scorePc' = "return"
    /\ UNCHANGED scoreArgs

(***************************************************************************)
(* Exchanges (routers/exchange.py, models/exchange.py).  A handler loads   *)
(* its rows with a SELECT, then works on the loaded objects and commits    *)
(* the attributes it changed; other requests can run between the two.      *)
(***************************************************************************)
\* Most exchange rows of the garment and most requests in progress at once.
MaxExchanges == 2
MaxInFlight == 2

ExchangeIds == 1..MaxExchanges
Slots == 1..MaxInFlight
ExchangeOps == {"create", "accept", "reject", "complete", "cancel"}

IdleRequest == [op |-> "idle", exchange |-> 0, status |-> "none", garment |-> "none"]
NoRequest == [op |-> "none", exchange |-> 0, read |-> "none", code |-> 0,
              exBefore |-> "none", exAfter |-> "none",
              gBefore |-> "none", gAfter |-> "none"]

ExchInit ==
    /\ garmentStatus = "active"
    /\ exchanges = [e \in ExchangeIds |-> "none"]
    /\ exchReqs = [s \in Slots |-> IdleRequest]
    /\ exchLast = NoRequest

ExchIdle == ExchInit

\* Garment.is_available
is_available(status) == status = "active"

\* the rows a create in progress will insert plus the rows there are
RowsClaimed ==
    Cardinality({e \in ExchangeIds : exchanges[e] # "none"})
        + Cardinality({s \in Slots : exchReqs[s].op = "create"})

\* the SELECT of a handler: the session loads the exchange and its garment
\* (create_exchange loads the garment only)
BeginRequest(s, op, e) ==
    /\ exchReqs[s] = IdleRequest
    /\ IF op = "create"
       THEN e = 0 /\ RowsClaimed < MaxExchanges
       ELSE e \in ExchangeIds /\ exchanges[e] # "none"
    /\ exchReqs' = [exchReqs EXCEPT ![s] =
                       [op |-> op, exchange |-> e,
                        status |-> IF op = "create" THEN "none" ELSE exchanges[e],
                        garment |-> garmentStatus]]
    /\ UNCHANGED <<garmentStatus, exchanges, exchLast>>

\* a request on an exchange id that has no row: 404
ExchangeNotFound(s, op, e) ==
    /\ exchReqs[s] = IdleRequest
    /\ op # "create" /\ exchanges[e] = "none"
    /\ exchLast' = [NoRequest EXCEPT !.op = op, !.exchange = e, !.code = 404,
                                     !.gBefore = garmentStatus, !.gAfter = garmentStatus]
    /\ UNCHANGED <<garmentStatus, exchanges, exchReqs>>

\* the handler ends: the response, and the commit of what the session changed
EndRequest(s, e, code, exAfter, gAfter) ==
    /\ exchanges' = IF e = 0 THEN exchanges ELSE [exchanges EXCEPT ![e] = exAfter]
    /\ garmentStatus' = gAfter
    /\ exchReqs' = [exchReqs EXCEPT ![s] = IdleRequest]
    /\ exchLast' = [op |-> exchReqs[s].op, exchange |-> e,
                    read |-> exchReqs[s].status, code |-> code,
                    exBefore |-> IF e = 0 THEN "none" ELSE exchanges[e],
                    exAfter |-> exAfter,
                    gBefore |-> garmentStatus, gAfter |-> gAfter]

\* the handler raises: nothing is written
FailRequest(s, e, code) ==
    EndRequest(s, e, code, IF e = 0 THEN "none" ELSE exchanges[e], garmentStatus)

\* the UPDATE of garments.status at commit: only an attribute that differs
\* from its loaded value is written
GarmentWrite(loaded, assigned) ==
    IF assigned # loaded THEN assigned ELSE garmentStatus

\* create_exchange after the SELECT
FinishCreate(s) ==
    /\ exchReqs[s].op = "create"
    /\ IF ~is_available(exchReqs[s].garment)
       THEN FailRequest(s, 0, 422)
       ELSE LET new == CHOOSE e \in ExchangeIds :
                          /\ exchanges[e] = "none"
                          /\ \A d \in ExchangeIds : d < e => exchanges[d] # "none"
            IN  EndRequest(s, new, 201, "pending",
                           GarmentWrite(exchReqs[s].garment, "reserved"))

\* Exchange.accept and accept_exchange after the SELECT
FinishAccept(s) ==
    /\ exchReqs[s].op = "accept"
    /\ IF exchReqs[s].status # "pending"
       THEN FailRequest(s, exchReqs[s].exchange, 422)
       ELSE EndRequest(s, exchReqs[s].exchange, 200, "accepted", garmentStatus)

\* Exchange.reject and reject_exchange after the SELECT
FinishReject(s) ==
    /\ exchReqs[s].op = "reject"
    /\ IF exchReqs[s].status # "pending"
       THEN FailRequest(s, exchReqs[s].exchange, 422)
       ELSE EndRequest(s, exchReqs[s].exchange, 200, "rejected",
                       GarmentWrite(exchReqs[s].garment, "active"))

\* Exchange.complete and complete_exchange after the SELECT
FinishComplete(s) ==
    /\ exchReqs[s].op = "complete"
    /\ IF exchReqs[s].status # "accepted"
       THEN FailRequest(s, exchReqs[s].exchange, 422)
       ELSE EndRequest(s, exchReqs[s].exchange, 200, "completed",
                       GarmentWrite(exchReqs[s].garment, "sold"))

\* the statuses Exchange.cancel accepts
Cancellable(status) == status \notin {"completed", "cancelled"}

\* Exchange.cancel and cancel_exchange after the SELECT
FinishCancel(s) ==
    /\ exchReqs[s].op = "cancel"
    /\ IF ~Cancellable(exchReqs[s].status)
       THEN FailRequest(s, exchReqs[s].exchange, 422)
       ELSE EndRequest(s, exchReqs[s].exchange, 200, "cancelled",
                       IF exchReqs[s].garment = "reserved"
                       THEN GarmentWrite(exchReqs[s].garment, "active")
                       ELSE garmentStatus)

ExchStep ==
    \E s \in Slots :
        \/ \E op \in ExchangeOps, e \in ExchangeIds \cup {0} : BeginRequest(s, op, e)
        \/ \E op \in ExchangeOps, e \in ExchangeIds : ExchangeNotFound(s, op, e)
        \/ FinishCreate(s)
        \/ FinishAccept(s)
        \/ FinishReject(s)
        \/ FinishComplete(s)
        \/ FinishCancel(s)

(***************************************************************************)
(* ConditionGrader._classify_grade (services/condition_grader.py).  A      *)
(* confidence is in thousandths, as round(conf, 3) leaves it.              *)
(***************************************************************************)
\* ConditionGrader.grade_prompts
grade_prompts ==
    << <<"brand", "new", "clothing", "with", "tags">>,
       <<"like", "new", "clothing", "in", "excellent", "condition">>,
       <<"gently", "used", "clothing", "in", "good", "condition">>,
       <<"visibly", "worn", "clothing", "with", "signs", "of", "use">>,
       <<"heavily", "worn", "damaged", "clothing">> >>

\* grade_map, in the order of the dict
grade_map ==
    << [key |-> <<"brand", "new">>, grade |-> "A"],
       [key |-> <<"like", "new">>, grade |-> "B"],
       [key |-> <<"gently", "used">>, grade |-> "C"],
       [key |-> <<"visibly", "worn">>, grade |-> "D"],
       [key |-> <<"heavily", "worn">>, grade |-> "F"] >>

\* the keys of grade_scores, in the order of the dict
GradeOrder == <<"A", "B", "C", "D", "F">>

\* the rounded softmax values the inputs are made of
ConfidenceValues == {0, 1, 167, 200, 250, 333, 334, 500, 999, 1000}

\* the confidences of the five prompts: a softmax, each value rounded to 3
\* decimals, so that they sum to 1 within the rounding
GradeConfidences ==
    {c \in [1..5 -> ConfidenceValues] :
        c[1] + c[2] + c[3] + c[4] + c[5] \in 998..1002}

\* key in label, for a key and a label made of whole words
ContainsWords(label, key) ==
    \E i \in 1..(Len(label) - Len(key) + 1) :
        SubSeq(label, i, i + Len(key) - 1) = key

\* the positions of grade_map whose key the label contains
MatchingKeys(label) ==
    {k \in 1..Len(grade_map) : ContainsWords(label, grade_map[k].key)}

\* the inner loop with its break: the grade of the first key the label
\* contains, as a 0- or 1-element set
GradeOfLabel(label) ==
    {grade_map[k].grade : k \in {j \in MatchingKeys(label) :
                                    \A i \in MatchingKeys(label) : j <= i}}

\* _classify_attribute(image, grade_prompts, n=5): every prompt's cleaned
\* label with its confidence
GradeItems(conf) ==
    [i \in 1..Len(grade_prompts) |->
        [label |-> _clean_label(grade_prompts[i]), confidence |-> conf[i]]]

\* grade_scores after the aggregation loop
AggregatedScores(items) ==
    [g \in Range(GradeOrder) |->
        LET mine == {i \in 1..Len(items) : GradeOfLabel(items[i].label) = {g}}
        IN  SumOver([i \in mine |-> items[i].confidence], mine)]

\* if total > 0: {k: round(v / total, 3)}
NormalizedScores(grade_scores) ==
    LET total == SumOver(grade_scores, DOMAIN grade_scores)
    IN  IF total > 0
        THEN [g \in DOMAIN grade_scores |-> RoundHalfEven(1000 * grade_scores[g], total)]
        ELSE grade_scores

\* a maximum taken as the last of the equal ones
BestGradeLast(grade_scores) ==
    LET best == {i \in 1..Len(GradeOrder) :
                    \A j \in 1..Len(GradeOrder) :
                        grade_scores[GradeOrder[j]] <= grade_scores[GradeOrder[i]]}
    IN  GradeOrder[CHOOSE i \in best : \A j \in best : j <= i]

\* max(grade_scores, key=grade_scores.get): the first key of the greatest value
BestGrade(grade_scores) ==
    LET best == {i \in 1..Len(GradeOrder) :
                    \A j \in 1..Len(GradeOrder) :
                        grade_scores[GradeOrder[j]] <= grade_scores[GradeOrder[i]]}
    IN  GradeOrder[CHOOSE i \in best : \A j \in best : i <= j]

_classify_grade(conf) ==
    LET grade_scores == NormalizedScores(AggregatedScores(GradeItems(conf)))
        best_grade == BestGrade(grade_scores)
    IN  [grade |-> best_grade,
         confidence |-> grade_scores[best_grade],
         all_scores |-> grade_scores]

NoGrade == [grade |-> "", confidence |-> 0, all_scores |-> <<>>]

GradeInit ==
    /\ gradePc = "call"
    /\ gradeArgs \in GradeConfidences
    /\ gradeResult = NoGrade

GradeIdle ==
    /\ gradePc = "call"
    /\ gradeArgs = [i \in 1..5 |-> 200]
    /\ gradeResult = NoGrade

GradeCall ==
    /\ gradePc = "call"
    /\ gradeResult' = _classify_grade(gradeArgs)
    /\ gradePc' = "return"
    /\ UNCHANGED gradeArgs

(***************************************************************************)
(* Inference steps of analyze_garment_image (routers/analysis.py 220-229,  *)
(* services/fashion_clip.py, services/condition_grader.py).  The tasks of  *)
(* the gather take turns at every await; a step handed to the executor     *)
(* runs when its thread is scheduled.                                      *)
(***************************************************************************)
\* the coroutines of the gather that use the model
InfTasks == {"classify_image", "grade", "encode_image"}

\* the tasks that await FashionCLIPService.initialize() first
InitializingTasks == {"classify_image", "encode_image"}

\* the *_sync function a task hands to the executor
SyncStep(task) ==
    CASE task = "classify_image" -> "_classify_attribute_sync"
      [] task = "grade" -> "_classify_attribute_sync"
      [] OTHER -> "_encode_image_sync"

InfInit ==
    /\ \E state \in {<<FALSE, FALSE>>, <<TRUE, FALSE>>, <<TRUE, TRUE>>} :
          infService = state[1] /\ infModel = state[2]
    /\ infLoadable \in BOOLEAN
    /\ infLock = "none"
    /\ infPc = [t \in InfTasks \cup {"request"} |->
                   IF t = "request" THEN "service" ELSE "idle"]
    /\ infSteps = {}

InfIdle ==
    /\ infService = FALSE /\ infModel = FALSE
    /\ infLoadable = TRUE
    /\ infLock = "none"
    /\ infPc = [t \in InfTasks \cup {"request"} |->
                   IF t = "request" THEN "service" ELSE "idle"]
    /\ infSteps = {}

\* get_fashion_clip_service in the handler: a stored singleton is returned
\* as it is; a new one is stored and then initialized
RequestGetService ==
    /\ infPc["request"] = "service"
    /\ infService' = TRUE
    /\ IF infService
       THEN /\ infPc' = [infPc EXCEPT !["request"] = "gather"]
            /\ UNCHANGED infModel
       ELSE IF infLoadable
            THEN /\ infModel' = TRUE
                 /\ infPc' = [infPc EXCEPT !["request"] = "gather"]
            ELSE /\ infPc' = [infPc EXCEPT !["request"] = "raised"]
                 /\ UNCHANGED infModel
    /\ UNCHANGED <<infLoadable, infLock, infSteps>>

\* asyncio.gather: the coroutines become tasks
RequestGather ==
    /\ infPc["request"] = "gather"
    /\ infPc' = [t \in DOMAIN infPc |-> IF t = "request" THEN "gathered" ELSE "start"]
    /\ UNCHANGED <<infService, infModel, infLoadable, infLock, infSteps>>

\* classify_image, encode_image: await self.initialize()
TaskInitialize(t) ==
    /\ t \in InitializingTasks /\ infPc[t] = "start"
    /\ IF infModel
       THEN infPc' = [infPc EXCEPT ![t] = "infer"] /\ UNCHANGED infLock
       ELSE IF infLock = "none"
            THEN infPc' = [infPc EXCEPT ![t] = "loading"] /\ infLock' = t
            ELSE infPc' = [infPc EXCEPT ![t] = "waiting"] /\ UNCHANGED infLock
    /\ UNCHANGED <<infService, infModel, infLoadable, infSteps>>

\* initialize(): the lock is acquired after a wait, the model is looked at again
TaskWake(t) ==
    /\ infPc[t] = "waiting" /\ infLock = "none"
    /\ IF infModel
       THEN infPc' = [infPc EXCEPT ![t] = "infer"] /\ UNCHANGED infLock
       ELSE infPc' = [infPc EXCEPT ![t] = "loading"] /\ infLock' = t
    /\ UNCHANGED <<infService, infModel, infLoadable, infSteps>>

\* initialize(): _load_model_sync ends in the executor, the lock is released
TaskLoad(t) ==
    /\ infPc[t] = "loading"
    /\ infLock' = "none"
    /\ IF infLoadable
       THEN infModel' = TRUE /\ infPc' = [infPc EXCEPT ![t] = "infer"]
       ELSE infPc' = [infPc EXCEPT ![t] = "raised"] /\ UNCHANGED infModel
    /\ UNCHANGED <<infService, infLoadable, infSteps>>

\* ConditionGrader.initialize: self.clip is the stored singleton, which
\* get_fashion_clip_service returns without initializing it
GraderInitialize ==
    /\ infPc["grade"] = "start"
    /\ infService
    /\ infPc' = [infPc EXCEPT !["grade"] = "infer"]
    /\ UNCHANGED <<infService, infModel, infLoadable, infLock, infSteps>>

\* the *_sync function of the task runs in the executor: with no model it
\* calls None and raises
TaskInfer(t) ==
    /\ infPc[t] = "infer"
    /\ infSteps' = infSteps \cup {[task |-> t, step |-> SyncStep(t), loaded |-> infModel]}
    /\ infPc' = [infPc EXCEPT ![t] = IF infModel THEN "done" ELSE "raised"]
    /\ UNCHANGED <<infService, infModel, infLoadable, infLock>>

InfStep ==
    \/ RequestGetService
    \/ RequestGather
    \/ GraderInitialize
    \/ \E t \in InfTasks :
          \/ TaskInitialize(t)
          \/ TaskWake(t)
          \/ TaskLoad(t)
          \/ TaskInfer(t)

(***************************************************************************)
(* Specifications                                                          *)
(***************************************************************************)
LoadNext ==
    LoadStep /\ UNCHANGED <<routeVars, priceVars, colorVars, simVars, discVars, aggVars, anVars, labelVars, scoreVars, exchVars, gradeVars, infVars>>
InitLoad ==
    /\ LoadInit
    /\ RouteIdle /\ PriceIdle /\ ColorIdle /\ SimIdle /\ DiscIdle /\ AggIdle /\ AnIdle /\ LabelIdle /\ ScoreIdle /\ ExchIdle /\ GradeIdle /\ InfIdle
SpecLoad == InitLoad /\ [][LoadNext]_vars

RouteNext ==
    RouteCall /\ UNCHANGED <<loadVars, priceVars, colorVars, simVars, discVars, aggVars, anVars, labelVars, scoreVars, exchVars, gradeVars, infVars>>
InitRoute ==
    /\ RouteInit
    /\ LoadIdle /\ PriceIdle /\ ColorIdle /\ SimIdle /\ DiscIdle /\ AggIdle /\ AnIdle /\ LabelIdle /\ ScoreIdle /\ ExchIdle /\ GradeIdle /\ InfIdle
SpecRoute == InitRoute /\ [][RouteNext]_vars

PriceNext ==
    PriceCall /\ UNCHANGED <<loadVars, routeVars, colorVars, simVars, discVars, aggVars, anVars, labelVars, scoreVars, exchVars, gradeVars, infVars>>
InitPrice ==
    /\ PriceInit
    /\ LoadIdle /\ RouteIdle /\ ColorIdle /\ SimIdle /\ DiscIdle /\ AggIdle /\ AnIdle /\ LabelIdle /\ ScoreIdle /\ ExchIdle /\ GradeIdle /\ InfIdle
SpecPrice == InitPrice /\ [][PriceNext]_vars

ColorNext ==
    ColorStep /\ UNCHANGED <<loadVars, routeVars, priceVars, simVars, discVars, aggVars, anVars, labelVars, scoreVars, exchVars, gradeVars, infVars>>
InitColor ==
    /\ ColorInit
    /\ LoadIdle /\ RouteIdle /\ PriceIdle /\ SimIdle /\ DiscIdle /\ AggIdle /\ AnIdle /\ LabelIdle /\ ScoreIdle /\ ExchIdle /\ GradeIdle /\ InfIdle
SpecColor == InitColor /\ [][ColorNext]_vars

SimNext ==
    SimCall /\ UNCHANGED <<loadVars, routeVars, priceVars, colorVars, discVars, aggVars, anVars, labelVars, scoreVars, exchVars, gradeVars, infVars>>
InitSim ==
    /\ SimInit
    /\ LoadIdle /\ RouteIdle /\ PriceIdle /\ ColorIdle /\ DiscIdle /\ AggIdle /\ AnIdle /\ LabelIdle /\ ScoreIdle /\ ExchIdle /\ GradeIdle /\ InfIdle
SpecSim == InitSim /\ [][SimNext]_vars

DiscNext ==
    DiscStep /\ UNCHANGED <<loadVars, routeVars, priceVars, colorVars, simVars, aggVars, anVars, labelVars, scoreVars, exchVars, gradeVars, infVars>>
InitDisc ==
    /\ DiscInit
    /\ LoadIdle /\ RouteIdle /\ PriceIdle /\ ColorIdle /\ SimIdle /\ AggIdle /\ AnIdle /\ LabelIdle /\ ScoreIdle /\ ExchIdle /\ GradeIdle /\ InfIdle
SpecDisc == InitDisc /\ [][DiscNext]_vars

AggNext ==
    AggCall /\ UNCHANGED <<loadVars, routeVars, priceVars, colorVars, simVars, discVars, anVars, labelVars, scoreVars, exchVars, gradeVars, infVars>>
InitAgg ==
    /\ AggInit
    /\ LoadIdle /\ RouteIdle /\ PriceIdle /\ ColorIdle /\ SimIdle /\ DiscIdle /\ AnIdle /\ LabelIdle /\ ScoreIdle /\ ExchIdle /\ GradeIdle /\ InfIdle
SpecAgg == InitAgg /\ [][AggNext]_vars

AnNext ==
    AnStep /\ UNCHANGED <<loadVars, routeVars, priceVars, colorVars, simVars, discVars, aggVars, labelVars, scoreVars, exchVars, gradeVars, infVars>>
InitAn ==
    /\ AnInit
    /\ LoadIdle /\ RouteIdle /\ PriceIdle /\ ColorIdle /\ SimIdle /\ DiscIdle /\ AggIdle /\ LabelIdle /\ ScoreIdle /\ ExchIdle /\ GradeIdle /\ InfIdle
SpecAn == InitAn /\ [][AnNext]_vars

LabelNext ==
    LabelCall /\ UNCHANGED <<loadVars, routeVars, priceVars, colorVars, simVars, discVars, aggVars, anVars, scoreVars, exchVars, gradeVars, infVars>>
InitLabel ==
    /\ LabelInit
    /\ LoadIdle /\ RouteIdle /\ PriceIdle /\ ColorIdle /\ SimIdle /\ DiscIdle /\ AggIdle /\ AnIdle /\ ScoreIdle /\ ExchIdle /\ GradeIdle /\ InfIdle
SpecLabel == InitLabel /\ [][LabelNext]_vars

ScoreNext ==
    ScoreCall /\ UNCHANGED <<loadVars, routeVars, priceVars, colorVars, simVars, discVars, aggVars, anVars, labelVars, exchVars, gradeVars, infVars>>
InitScore ==
    /\ ScoreInit
    /\ LoadIdle /\ RouteIdle /\ PriceIdle /\ ColorIdle /\ SimIdle /\ DiscIdle /\ AggIdle /\ AnIdle /\ LabelIdle /\ ExchIdle /\ GradeIdle /\ InfIdle
SpecScore == InitScore /\ [][ScoreNext]_vars

ExchNext ==
    ExchStep /\ UNCHANGED <<loadVars, routeVars, priceVars, colorVars, simVars, discVars, aggVars, anVars, labelVars, scoreVars, gradeVars, infVars>>
InitExch ==
    /\ ExchInit
    /\ LoadIdle /\ RouteIdle /\ PriceIdle /\ ColorIdle /\ SimIdle /\ DiscIdle /\ AggIdle /\ AnIdle /\ LabelIdle /\ ScoreIdle /\ GradeIdle /\ InfIdle
SpecExch == InitExch /\ [][ExchNext]_vars

GradeNext ==
    GradeCall /\ UNCHANGED <<loadVars, routeVars, priceVars, colorVars, simVars, discVars, aggVars, anVars, labelVars, scoreVars, exchVars, infVars>>
InitGrade ==
    /\ GradeInit
    /\ LoadIdle /\ RouteIdle /\ PriceIdle /\ ColorIdle /\ SimIdle /\ DiscIdle /\ AggIdle /\ AnIdle /\ LabelIdle /\ ScoreIdle /\ ExchIdle /\ InfIdle
SpecGrade == InitGrade /\ [][GradeNext]_vars

InfNext ==
    InfStep /\ UNCHANGED <<loadVars, routeVars, priceVars, colorVars, simVars, discVars, aggVars, anVars, labelVars, scoreVars, exchVars, gradeVars>>
InitInf ==
    /\ InfInit
    /\ LoadIdle /\ RouteIdle /\ PriceIdle /\ ColorIdle /\ SimIdle /\ DiscIdle /\ AggIdle /\ AnIdle /\ LabelIdle /\ ScoreIdle /\ ExchIdle /\ GradeIdle
SpecInf == InitInf /\ [][InfNext]_vars

(***************************************************************************)
(* Claims                                                                  *)
(***************************************************************************)

\* C1: under any interleaving of concurrent callers of initialize(), the
\* load is started at most once beyond the loads that failed: no two loads
\* run at once and none starts after a load has succeeded.
C1_LoadAtMostOnce ==
    /\ loadStarts <= loadFails + 1
    /\ Cardinality({c \in Callers : pc[c] = "loading"}) <= 1
    /\ (model => loadStarts = loadFails + 1)

\* C1 witness: a caller that waited for the lock during a successful load
\* has returned without loading again.
C1_Witness ==
    /\ model
    /\ loadStarts = 1 /\ loadFails = 0
    /\ rechecked # {}
    /\ \A c \in Callers : pc[c] = "returned"

\* The ordered table as the claim C2 states it: rule (5) applies whenever a
\* price is present and below 15.
C2_Table(grade, tier, price) ==
    IF tier = 5 THEN "sell"
    ELSE IF tier = 1 THEN "donate"
    ELSE IF grade = "F" THEN "recycle"
    ELSE IF grade = "D" /\ tier <= 2 THEN "donate"
    ELSE IF price # None /\ TheValue(price) < 15 THEN "choice"
    ELSE IF grade \in {"A", "B"} THEN "sell"
    ELSE "sell_discount"

\* C2: for every grade, brand tier 1..5 and price, the returned action is
\* that of the first matching rule of the ordered table (1)..(7).
C2_OrderedTable ==
    (routePc = "return" /\ routeArgs.brand_tier # None) =>
        /\ ~routeResult.raised
        /\ routeResult.action =
             C2_Table(routeArgs.grade, TheValue(routeArgs.brand_tier),
                      routeArgs.estimated_price)

\* C3 as stated: grade F is routed to recycle for every brand tier and price.
C3_GradeFAlwaysRecycle ==
    (routePc = "return" /\ routeArgs.grade = "F") =>
        routeResult.action = "recycle"

\* C3 amended: grade F is routed to recycle for every price when the brand
\* tier is absent, 2, 3 or 4; brand tier 5 is routed to sell and brand tier 1
\* to donate, whatever the grade.
C3_GradeFRecycleUnlessTier1Or5 ==
    (routePc = "return" /\ routeArgs.grade = "F") =>
        routeResult.action =
            IF routeArgs.brand_tier = Some(5) THEN "sell"
            ELSE IF routeArgs.brand_tier = Some(1) THEN "donate"
            ELSE "recycle"

\* C3 witness: grade F with a low price and no brand tier was routed to recycle.
C3_Witness ==
    /\ routePc = "return"
    /\ routeArgs = [grade |-> "F", brand_tier |-> None, estimated_price |-> Some(10)]
    /\ routeResult.action = "recycle"


\* C4: every estimate has recommended_price >= 5.00, price_range.min within
\* half a cent of 0.8 * recommended and price_range.max within half a cent
\* of 1.2 * recommended (both rounded to 2 decimals), so min <= recommended
\* <= max.
C4_FloorAndRange ==
    pricePc = "return" =>
        LET rec == priceResult.recommended_price
            lo == priceResult.price_range.min
            hi == priceResult.price_range.max
        IN  /\ rec >= 500
            /\ 10 * lo - 8 * rec \in -4..4
            /\ 10 * hi - 12 * rec \in -4..4
            /\ lo <= rec /\ rec <= hi

\* C4 witness: an estimate whose raw value is negative came back as 5.00
\* with the range [4.00, 6.00].
C4_Witness ==
    /\ pricePc = "return"
    /\ priceArgs.original_price = Some(-1000)
    /\ priceArgs.provenance = None
    /\ priceResult.recommended_price = 500
    /\ priceResult.price_range = [min |-> 400, max |-> 600]


\* The condition multipliers as C5 lists them (hundredths); a condition is
\* recognised whatever its letter case.
C5_ConditionMultiplier(condition) ==
    CASE condition \in {"new", "New"} -> 85
      [] condition = "excellent" -> 70
      [] condition = "good" -> 50
      [] condition = "fair" -> 30
      [] OTHER -> 40

RECURSIVE SumPercentages(_)
SumPercentages(results) ==
    IF results = <<>> THEN 0
    ELSE Head(results).percentage + SumPercentages(Tail(results))

\* some pixel of the image was discarded as background
BackgroundDiscarded ==
    /\ colorArgs.remove_background
    /\ \E c \in PixelColours : colorArgs.image[c] > 0 /\ is_background_color(c)

\* the result is not empty, is in descending order of percentage, and its
\* first entry, and no other, is dominant
C6_OrderedOneDominant ==
    /\ Len(colorResult) >= 1
    /\ \A i \in 1..(Len(colorResult) - 1) :
          colorResult[i].percentage >= colorResult[i + 1].percentage
    /\ \A i \in 1..Len(colorResult) : colorResult[i].is_dominant <=> (i = 1)

\* C6 as stated: the result is non-empty and ordered by descending
\* percentage, the percentages sum to at most 1.0 and to less than 1.0 when
\* background removal discarded a pixel, and exactly the first entry is
\* dominant.
C6_PercentagesAtMostOne ==
    colorPc = "return" =>
        /\ C6_OrderedOneDominant
        /\ SumPercentages(colorResult) <= 1000
        /\ BackgroundDiscarded => SumPercentages(colorResult) < 1000

\* C6 amended: the result is non-empty and ordered by descending percentage,
\* exactly the first entry is dominant, and the percentages, which are
\* shares of the pixels left after background removal rounded to 3
\* decimals, sum to 1.0 give or take 0.0005 per entry, whether or not
\* background was removed.
C6_PercentagesSumToOneRounded ==
    colorPc = "return" =>
        /\ C6_OrderedOneDominant
        /\ 2 * (SumPercentages(colorResult) - 1000) \in
              -Len(colorResult)..Len(colorResult)

\* C6 witness: three clusters of 40, 40 and 60 kept pixels, with background
\* removed, came back as 0.429, 0.286, 0.286: the dominant first, sum 1.001.
C6_Witness ==
    /\ colorPc = "return"
    /\ BackgroundDiscarded
    /\ Len(colorResult) = 3
    /\ colorResult[1] = [cluster |-> 3, percentage |-> 429, is_dominant |-> TRUE]
    /\ colorResult[2].percentage = 286 /\ colorResult[3].percentage = 286


\* C7: for unit-norm embeddings a, b the similarity returned by either
\* service lies in [0, 1], and similarity(a, a) = 1.
C7_SimilarityClamped ==
    simPc = "return" =>
        /\ simResult >= 0 /\ simResult <= 10000
        /\ simArgs.embedding1 = simArgs.embedding2 => simResult = 10000

(***************************************************************************)
(* Discovery claims.                                                       *)
(***************************************************************************)
\* a search that ranks by similarity: discover_garments with q, or
\* find_similar_garments
RankedSearch ==
    \/ discReq.endpoint = "similar"
    \/ discReq.q # None /\ discReq.q # Some("")

\* the similarity the handler gives candidate g, recomputed from the request,
\* the table and the query embedding of the response
CandidateSimilarity(g) ==
    IF garments[g].embedding # None
    THEN StyleSimilarity(TheValue(discResp.query_embedding),
                         TheValue(garments[g].embedding))
    ELSE _calculate_text_similarity(TheValue(discReq.q), g)

ApplicableThreshold ==
    IF discReq.endpoint = "similar" THEN SimilarThreshold ELSE DiscoverThreshold

\* the candidates at or above the applicable threshold
Qualifying == {g \in Range(discRead) : CandidateSimilarity(g) >= ApplicableThreshold}

RankedReturned == discPc = "return" /\ discResp.status = 200 /\ RankedSearch

\* C8: in every response computed from a
\* query (discover_garments with q, find_similar_garments) the results are in
\* descending similarity, and two results of equal similarity are in
\* descending creation time of their garments, whatever the read order.
C8_TiesByCreationTime ==
    RankedReturned =>
        \A i, j \in 1..Len(discResp.results) :
            i < j =>
                LET a == discResp.results[i].garment
                    b == discResp.results[j].garment
                IN  \/ CandidateSimilarity(a) > CandidateSimilarity(b)
                    \/ /\ CandidateSimilarity(a) = CandidateSimilarity(b)
                       /\ created_at(a) > created_at(b)

\* C9: every result of discover_garments with q has similarity >= 0.1 and
\* every result of find_similar_garments has similarity >= 0.3; total counts
\* exactly the candidates at or above the applicable threshold, and no
\* candidate below it is returned.
C9_Thresholds ==
    RankedReturned =>
        /\ \A i \in 1..Len(discResp.results) :
              /\ discResp.results[i].garment \in Qualifying
              /\ 10 * discResp.results[i].similarity_score >= ApplicableThreshold
        /\ discResp.total = Cardinality(Qualifying)

\* discover_garments with q returned a candidate that is exactly at 0.1 and
\* left out one that is below it
C9_Witness ==
    /\ RankedReturned /\ discReq.endpoint = "discover"
    /\ \E i \in 1..Len(discResp.results) :
          CandidateSimilarity(discResp.results[i].garment) = DiscoverThreshold
    /\ \E g \in Range(discRead) : CandidateSimilarity(g) < DiscoverThreshold
    /\ discResp.total = 1

\* the key the handler sorts candidate g by
SortKey(g) == IF RankedSearch THEN CandidateSimilarity(g) ELSE created_at(g)

\* the candidates the handler ranks
Ranked == IF RankedSearch THEN Qualifying ELSE Range(discRead)

\* C10: pagination follows scoring, thresholding and sorting of the whole
\* pool: page p of size s is elements (p-1)*s .. p*s-1 of the sorted list of
\* all candidates at or above the threshold, total is the length of that
\* list and pages = ceil(total / s); with no such candidate the response is
\* total 0, pages 0 and no results with status 200; a page past the last one
\* is empty and leaves total unchanged.  An error status has its own cause.
C10_PaginateAfterSort ==
    discPc = "return" =>
        LET p == discResp.page
            s == discResp.page_size
            start_idx == (p - 1) * s
            n == Len(discResp.results)
        IN  /\ discResp.status \in {200, 503, 404, 422}
            /\ discResp.status = 503 =>
                  discReq.endpoint = "discover" /\ discReq.q # None
            /\ discResp.status = 404 => discReq.garment_id \notin GarmentIds
            /\ discResp.status = 422 =>
                  garments[discReq.garment_id].embedding = None
            /\ discResp.status = 200 =>
                  /\ p = discReq.page /\ s = discReq.page_size
                  /\ discResp.total = Cardinality(Ranked)
                  /\ discResp.pages * s >= discResp.total
                  /\ discResp.pages * s < discResp.total + s
                  /\ n = Max(0, Min(s, discResp.total - start_idx))
                  /\ \A i \in 1..n :
                        LET g == discResp.results[i].garment
                        IN  /\ g \in Ranked
                            /\ Cardinality({h \in Ranked : SortKey(h) > SortKey(g)})
                                   <= start_idx + i - 1
                            /\ Cardinality({h \in Ranked : SortKey(h) >= SortKey(g)})
                                   >= start_idx + i
                  /\ \A i, j \in 1..n :
                        i # j => discResp.results[i].garment
                                    # discResp.results[j].garment

\* the second page of a ranked search over three qualifying candidates that
\* were read in another order than the sorted one
C10_Witness ==
    /\ RankedReturned
    /\ discResp.page = 2 /\ discResp.page_size = 2
    /\ discResp.total = 3 /\ discResp.pages = 2
    /\ Len(discResp.results) = 1
    /\ CandidateSimilarity(discRead[1]) < CandidateSimilarity(discRead[3])

\* C11: every DiscoveryResult of discover_garments (with or without q) and of
\* find_similar_garments carries between 1 and 3 match reasons.
C11_ReasonsOneToThree ==
    (discPc = "return" /\ discResp.status = 200) =>
        \A i \in 1..Len(discResp.results) :
            /\ Len(discResp.results[i].match_reasons) >= 1
            /\ Len(discResp.results[i].match_reasons) <= 3

(***************************************************************************)
(* Batch aggregation claims.                                               *)
(***************************************************************************)
\* the summed confidence of a label over all images of the call
AggSum(label) == CategoryVote(Flatten(aggArgs), label)

\* the labels that received a vote
AggVoted == {e.label : e \in Range(Flatten(aggArgs))}

AggTotal == SumOver([l \in AggVoted |-> AggSum(l)], AggVoted)

\* C12: aggregate_predictions sums the category confidences per label over
\* all images, divides each sum by the total of all sums (3 decimals), and
\* returns at most the 3 labels of largest sum in descending order; a zero
\* total gives the empty list; two images voting only dress at 0.9 and 0.8
\* give the single entry {dress, 1.0}.
C12_Aggregate ==
    aggPc = "return" =>
        /\ AggTotal = 0 => aggResult = <<>>
        /\ AggTotal > 0 =>
              /\ Len(aggResult) = Min(3, Cardinality(AggVoted))
              /\ \A k \in 1..Len(aggResult) :
                    /\ aggResult[k].label \in AggVoted
                    /\ aggResult[k].confidence =
                          RoundHalfEven(1000 * AggSum(aggResult[k].label), AggTotal)
                    /\ \A l \in AggVoted \ {aggResult[i].label : i \in 1..k} :
                          AggSum(l) <= AggSum(aggResult[k].label)
              /\ \A i, k \in 1..Len(aggResult) :
                    i < k => /\ aggResult[i].label # aggResult[k].label
                             /\ AggSum(aggResult[i].label) >= AggSum(aggResult[k].label)
        /\ aggArgs = << <<[label |-> "dress", confidence |-> 900]>>,
                        <<[label |-> "dress", confidence |-> 800]>> >>
              => aggResult = <<[label |-> "dress", confidence |-> 1000]>>

\* four labels were voted for over two images; the three of largest sum are
\* returned, normalized by the total over all four
C12_Witness ==
    /\ aggPc = "return"
    /\ aggArgs = << <<[label |-> "jeans", confidence |-> 100],
                      [label |-> "dress", confidence |-> 900]>>,
                    <<[label |-> "coat", confidence |-> 800],
                      [label |-> "jacket", confidence |-> 900]>> >>
    /\ aggResult = <<[label |-> "dress", confidence |-> 333],
                     [label |-> "jacket", confidence |-> 333],
                     [label |-> "coat", confidence |-> 296]>>

(***************************************************************************)
(* Analysis claims.                                                        *)
(***************************************************************************)
\* the events of the log that are work on a file of the batch loop
LoopEvents == SelectSeq(anLog, LAMBDA e : e.op \in {"read", "decode", "classify"})

\* read 1, decode 1, classify 1, read 2, decode 2, classify 2, ...
InSubmissionOrder(events) ==
    \A i \in 1..Len(events) :
        /\ events[i].file = ((i - 1) \div 3) + 1
        /\ events[i].op = CASE i % 3 = 1 -> "read"
                            [] i % 3 = 2 -> "decode"
                            [] OTHER -> "classify"

\* C13: a batch request with more than 8 images is rejected before any work:
\* nothing is read or decoded, the encoder is neither obtained nor
\* initialized, nothing is classified; a request with at most 8 images
\* classifies its images one at a time in submission order, and all of them
\* when it succeeds.
C13_CapBeforeWork ==
    anReq.endpoint = "batch" =>
        /\ Len(anReq.files) > 8 =>
              /\ anLog = <<>>
              /\ anPc = "done" => anResp = 400
        /\ Len(anReq.files) <= 8 =>
              /\ InSubmissionOrder(LoopEvents)
              /\ anResp = 200 => Len(LoopEvents) = 3 * Len(anReq.files)

\* a batch of nine valid images was rejected with nothing done
C13_Witness ==
    /\ anReq.endpoint = "batch" /\ anPc = "done"
    /\ Len(anReq.files) = 9
    /\ \A i \in 1..9 : anReq.files[i] = "ok"
    /\ anResp = 400 /\ anLog = <<>>

\* the request carries a file that is not a valid image
HasInvalidFile == \E i \in 1..Len(anReq.files) : anReq.files[i] # "ok"

\* C14: in single-image and in batch analysis a request with an invalid image
\* (disallowed type, more than 10MB, undecodable) is rejected with a client
\* error before any model call (obtaining or initializing the encoder,
\* classification, grading, embedding) is made for it.
C14_InvalidRejectedBeforeModel ==
    (anPc = "done" /\ HasInvalidFile) =>
        /\ anResp \in {400, 413, 422}
        /\ \A i \in 1..Len(anLog) : anLog[i].op \notin ModelOps

\* a load of the model was attempted for the request and failed
LoadFailed == ~clipLoadable /\ \E i \in 1..Len(anLog) : anLog[i].op = "load"

\* C15: when the model cannot be loaded, an analysis request that needs the
\* encoder ends in a service-unavailable (503) response.
C15_LoadFailureIs503 ==
    (anPc = "done" /\ LoadFailed) => anResp = 503

\* C16: a similar-item lookup whose source garment exists without a stored
\* embedding ends in its own error (422), never in an empty page with
\* total 0; the empty page is returned only when the source has an embedding
\* and no candidate qualifies; a missing source garment gives a third
\* outcome (404).
C16_NoEmbeddingDistinct ==
    (discPc = "return" /\ discReq.endpoint = "similar") =>
        LET source == discReq.garment_id
        IN  /\ source \notin GarmentIds => discResp.status = 404
            /\ (source \in GarmentIds /\ garments[source].embedding = None)
                  => discResp.status = 422
            /\ (source \in GarmentIds /\ garments[source].embedding # None)
                  => discResp.status = 200
            /\ (discResp.status = 200 /\ discResp.total = 0)
                  => /\ source \in GarmentIds
                     /\ garments[source].embedding # None
                     /\ Qualifying = {}

\* the source garment has no embedding while other active garments have one:
\* the lookup answered 422
C16_Witness ==
    /\ discPc = "return" /\ discReq.endpoint = "similar"
    /\ discReq.garment_id \in GarmentIds
    /\ garments[discReq.garment_id].embedding = None
    /\ \E g \in GarmentIds \ {discReq.garment_id} :
          garments[g].status = "active" /\ garments[g].embedding # None
    /\ discResp.status = 422 /\ discResp.results = <<>>

(***************************************************************************)
(* Classifier label claims.                                                *)
(***************************************************************************)
\* C17: for every prompt of the five prompt banks the label of _clean_label
\* starts with none of "a photo of ", "a ", "an " and contains none of
\* " clothing", " fabric", " material", " style"; "a photo of a dress" gives
\* "dress".
C17_CleanLabel ==
    labelPc = "return" =>
        /\ ~StartsWith(labelResult, <<"a", "photo", "of">>)
        /\ ~StartsWith(labelResult, <<"a">>)
        /\ ~StartsWith(labelResult, <<"an">>)
        /\ \A i \in 2..Len(labelResult) :
              labelResult[i] \notin {"clothing", "fabric", "material", "style"}
        /\ labelArgs = <<"a", "photo", "of", "a", "dress">>
              => labelResult = <<"dress">>

(***************************************************************************)
(* Pricing claims on the sustainability bonus, the confidence and the base *)
(* value.                                                                  *)
(***************************************************************************)
\* S of the bonus: 15 for vintage, antique, designer archive; 5 for
\* secondhand, consignment; else 0
BonusS(source) ==
    CASE Lower(source) \in {"vintage", "antique", "designer archive"} -> 1500
      [] Lower(source) \in {"secondhand", "consignment"} -> 500
      [] OTHER -> 0

\* M of the bonus: 5 once when a listed material matches the sustainable set
BonusM(materials) ==
    IF \E m \in Range(materials) :
          \E sus \in SUSTAINABLE_MATERIALS : Contains(Lower(m), sus)
    THEN 500 ELSE 0

\* the bonus of one certification
BonusOfCertification(cert) ==
    CASE \E n \in {"gots", "fair trade", "cradle to cradle"} : Contains(Lower(cert), n) -> 1000
      [] \E n \in {"b corp", "bluesign"} : Contains(Lower(cert), n) -> 800
      [] Contains(Lower(cert), "oeko-tex") -> 500
      [] OTHER -> 0

\* C of the bonus: the sum over the listed certifications
BonusC(certs) ==
    SumOver([i \in 1..Len(certs) |-> BonusOfCertification(certs[i])], 1..Len(certs))

\* C18: the sustainability bonus is min(50, S + M + C), lies in [0, 50] and
\* is 0 for an absent or empty provenance.
C18_SustainabilityBonus ==
    pricePc = "return" =>
        LET bonus == priceResult.factors.sustainability_bonus
            provenance == priceArgs.provenance
        IN  /\ bonus >= 0 /\ bonus <= 5000
            /\ (provenance = None \/ provenance = Some(EmptyProvenance)) => bonus = 0
            /\ provenance # None =>
                  LET p == TheValue(provenance)
                  IN  bonus = Min(5000, BonusS(p.source) + BonusM(p.materials)
                                          + BonusC(p.certifications))

\* a vintage linen garment with four certifications: 15 + 5 + 38 is capped
\* at 50
C18_Witness ==
    /\ pricePc = "return"
    /\ priceArgs.provenance =
          Some([source |-> "vintage", materials |-> <<"linen">>,
                certifications |-> <<"GOTS", "Fair Trade", "Cradle to Cradle", "B Corp">>])
    /\ priceResult.factors.sustainability_bonus = 5000

\* the brand of the call receives a multiplier of the brand table
BrandHasTableMultiplier ==
    /\ priceArgs.brand # None /\ priceArgs.brand # Some("")
    /\ Strip(Lower(TheValue(priceArgs.brand))) \in DOMAIN BRAND_TIERS

\* the points of the confidence: known category 1, known brand 2, known
\* original price 2
ConfidencePoints ==
    (IF Lower(priceArgs.category) \in DOMAIN CATEGORY_BASE_PRICES THEN 1 ELSE 0)
  + (IF BrandHasTableMultiplier THEN 2 ELSE 0)
  + (IF Truthy(priceArgs.original_price) THEN 2 ELSE 0)

\* C19: the confidence is high iff the points are at least 4, medium iff they
\* are 2 or 3, low otherwise, where the brand counts as known exactly when it
\* receives a table brand multiplier in the same call, surrounding
\* whitespace and letter case notwithstanding.
C19_Confidence ==
    pricePc = "return" =>
        priceResult.confidence =
            IF ConfidencePoints >= 4 THEN "high"
            ELSE IF ConfidencePoints >= 2 THEN "medium"
            ELSE "low"

\* C20: the base value is original_price whenever one is supplied, 0
\* included, and otherwise the category's table value, 75.00 for a category
\* outside the table; the category lookup ignores letter case.
C20_BaseValue ==
    pricePc = "return" =>
        priceResult.factors.base_value =
            IF priceArgs.original_price # None
            THEN TheValue(priceArgs.original_price)
            ELSE Get(CATEGORY_BASE_PRICES, Lower(priceArgs.category), 7500)

(***************************************************************************)
(* Sustainability score claims.                                            *)
(***************************************************************************)
\* the classified materials of the call whose label names a sustainable material
ScoreK ==
    Cardinality({i \in 1..Len(scoreArgs.materials) :
        \/ scoreArgs.materials[i] = "clothing made of wool"
        \/ scoreArgs.materials[i] = "Silk"})

ScoreBonus ==
    CASE scoreArgs.condition = "A" -> 15
      [] scoreArgs.condition = "B" -> 10
      [] scoreArgs.condition = "C" -> 5
      [] scoreArgs.condition = "D" -> 3
      [] OTHER -> 0

\* C21: calculate_sustainability_score returns
\* min(100, min(80, 50 + 10 * k) + bonus(grade)), an integer in [0, 100].
C21_SustainabilityScore ==
    scorePc = "return" =>
        /\ scoreResult = Min(100, Min(80, 50 + 10 * ScoreK) + ScoreBonus)
        /\ scoreResult \in 0..100

\* four sustainable materials in grade A: the material points are capped at
\* 80 and the score is 95
C21_Witness ==
    /\ scorePc = "return"
    /\ ScoreK = 4 /\ scoreArgs.condition = "A"
    /\ scoreResult = 95

(***************************************************************************)
(* Exchange claims.                                                        *)
(***************************************************************************)
\* the request that ended last wrote nothing
LastWroteNothing ==
    exchLast.exAfter = exchLast.exBefore /\ exchLast.gAfter = exchLast.gBefore

\* C22: cancelling succeeds only on a pending or accepted exchange; on a
\* rejected, completed or cancelled one it fails with an error and changes
\* neither the exchange status nor the garment status.
C22_CancelOnlyActive ==
    exchLast.op = "cancel" /\ exchLast.code # 404 =>
        IF exchLast.read \in {"pending", "accepted"}
        THEN exchLast.code = 200
        ELSE exchLast.code = 422 /\ LastWroteNothing

\* the guards of accept, reject and complete on the status the handler loaded
C23_Guards ==
    /\ exchLast.op \in {"accept", "reject"} /\ exchLast.code # 404 =>
           IF exchLast.read = "pending"
           THEN exchLast.code = 200
           ELSE exchLast.code = 422 /\ LastWroteNothing
    /\ exchLast.op = "complete" /\ exchLast.code # 404 =>
           IF exchLast.read = "accepted"
           THEN exchLast.code = 200
           ELSE exchLast.code = 422 /\ LastWroteNothing

\* C23: accept and reject succeed only on a pending exchange and complete
\* only on an accepted one, every other status giving an error and no
\* change; an exchange becomes completed only from accepted, and a completed
\* exchange never changes status again.
C23_StatusFlow ==
    /\ C23_Guards
    /\ exchLast.exBefore = "completed" => exchLast.exAfter = "completed"
    /\ exchLast.exAfter = "completed" /\ exchLast.exBefore # "completed" =>
           exchLast.exBefore = "accepted"

ActiveExchanges == {e \in ExchangeIds : exchanges[e] \in {"pending", "accepted"}}

\* C29: a garment has at most one pending or accepted exchange at a time,
\* under any interleaving of requests; an exchange is created only for an
\* active garment, and the garment is reserved while that exchange is
\* pending or accepted.
C29_OneActiveExchange ==
    /\ Cardinality(ActiveExchanges) <= 1
    /\ ActiveExchanges # {} => garmentStatus = "reserved"
    /\ exchLast.op = "create" /\ exchLast.code = 201 => exchLast.gBefore = "active"

CompletedExchanges == {e \in ExchangeIds : exchanges[e] = "completed"}

\* C30: once an exchange of a garment is completed the garment is sold and
\* stays sold, so that at most one exchange of a garment is ever completed.
C30_SoldStaysSold ==
    /\ CompletedExchanges # {} => garmentStatus = "sold"
    /\ exchLast.gBefore = "sold" => exchLast.gAfter = "sold"
    /\ Cardinality(CompletedExchanges) <= 1

(***************************************************************************)
(* Routing totality.                                                       *)
(***************************************************************************)
RoutingActions == {"sell", "donate", "recycle", "choice", "sell_discount"}

\* C24: for every grade, every brand tier (absent or 1..5) and every price
\* (absent or a number) get_routing_recommendation returns normally, with
\* an action among sell, donate, recycle, choice and sell_discount, grade D
\* without a brand tier included.
C24_RoutingTotal ==
    routePc = "return" =>
        /\ ~routeResult.raised
        /\ routeResult.action \in RoutingActions

(***************************************************************************)
(* Colour extraction: the placeholder and the number of clusters.          *)
(***************************************************************************)
\* len(pixels) of the call: the pixels left after the background mask
RemainingPixels ==
    SumOver(colorArgs.image, KeptColours(colorArgs.image, colorArgs.remove_background))

\* C25: with fewer than 100 pixels left after background removal, zero
\* included, extract_colors returns exactly one colour, named Unknown, hex
\* #808080, rgb (128,128,128), percentage 1.0, is_dominant true; with 100
\* pixels or more it does not return the placeholder.
C25_Placeholder ==
    colorPc = "return" =>
        IF RemainingPixels < 100
        THEN /\ Len(colorResult) = 1
             /\ colorResult[1].name = "Unknown"
             /\ colorResult[1].hex = "#808080"
             /\ colorResult[1].rgb = <<128, 128, 128>>
             /\ colorResult[1].percentage = 1000
             /\ colorResult[1].is_dominant
        ELSE /\ Len(colorResult) # 1
             /\ colorResult # UnknownColor

\* a call that left no pixel at all returned the placeholder
C25_Witness ==
    /\ colorPc = "return"
    /\ RemainingPixels = 0
    /\ colorResult = UnknownColor

\* C27: with p >= 100 pixels left and n_colors >= 1, extract_colors uses
\* min(max(2, floor(p / 20)), n_colors) clusters, so never more than
\* n_colors.
C27_ClusterCount ==
    colorPc = "return" /\ RemainingPixels >= 100 =>
        /\ Len(colorResult) = Min(Max(2, RemainingPixels \div 20), colorArgs.n_colors)
        /\ Len(colorResult) <= colorArgs.n_colors

(***************************************************************************)
(* Condition grade claims.                                                 *)
(***************************************************************************)
\* the sum of the five scores of the result
AllScoresSum == SumOver(gradeResult.all_scores, DOMAIN gradeResult.all_scores)

\* the confidences of the call, summed
ConfidenceSum == SumOver(gradeArgs, DOMAIN gradeArgs)

\* every prompt counts for the grade of its position, the scores are each
\* sum / total rounded to 3 decimals, and the result is the earliest grade
\* of the greatest score, with that score
GradeSelection ==
    /\ \A i \in 1..5 : GradeOfLabel(_clean_label(grade_prompts[i])) = {GradeOrder[i]}
    /\ \A i \in 1..5 :
           gradeResult.all_scores[GradeOrder[i]] =
               RoundHalfEven(1000 * gradeArgs[i], ConfidenceSum)
    /\ \E i \in 1..5 :
           /\ gradeResult.grade = GradeOrder[i]
           /\ gradeResult.confidence = gradeResult.all_scores[GradeOrder[i]]
           /\ \A j \in 1..5 :
                  gradeResult.all_scores[GradeOrder[j]] <= gradeResult.confidence
           /\ \A j \in 1..(i - 1) :
                  gradeResult.all_scores[GradeOrder[j]] < gradeResult.confidence

\* C26 as stated: _classify_grade sums the prompt scores per grade, each
\* prompt counting for exactly one grade, renormalizes the five sums so
\* that they sum to 1, and returns the grade of the greatest normalized
\* score with that score, the earliest of A, B, C, D, F on a tie.
C26_AsStated ==
    gradePc = "return" => GradeSelection /\ AllScoresSum = 1000

\* C26 amended: as above, but each normalized score is rounded to 3
\* decimals, so the five scores sum to 1 only to within 0.002.
C26_ClassifyGrade ==
    gradePc = "return" =>
        /\ GradeSelection
        /\ AllScoresSum \in 998..1002

\* a call where two grades share the greatest score and the scores do not
\* sum to 1
C26_Witness ==
    /\ gradePc = "return"
    /\ AllScoresSum # 1000
    /\ \E i, j \in 1..5 :
           /\ i < j
           /\ gradeResult.grade = GradeOrder[i]
           /\ gradeResult.all_scores[GradeOrder[j]] = gradeResult.confidence

(***************************************************************************)
(* Inference claims.                                                       *)
(***************************************************************************)
\* C28: no inference step ever runs while the service's model is not
\* loaded: not after a failed load at startup, which leaves the
\* uninitialized singleton stored, and not in the single-image analysis,
\* where grade classifies while classify_image may still be loading.
C28_NoInferenceUnloaded ==
    \A s \in infSteps : s.loaded

====
